---- MODULE Spec2Model ----
(***************************************************************************)
(* Model of the transformation stage of the retail data pipeline:          *)
(* StarSchemaProcessor (transformation/processors/star_schema_processor.py)*)
(* over a PostgreSQL star schema and an S3 raw / processed bucket.         *)
(*                                                                         *)
(* Every SQL statement the processor issues is one step.  A resolver's     *)
(* `with engine.begin()` block commits when the block is left, so the      *)
(* statement that ends a resolver is taken together with its commit.  The  *)
(* fact inserts of one load_sales_fact call share one transaction, which   *)
(* is committed when the batch loop is left.                               *)
(***************************************************************************)
EXTENDS Integers, Sequences, FiniteSets, TLC

\* ------------------------------------------------------------------ bounds

MaxBatch == 3       \* records in the raw file of a partition (sequential runs)
MaxBatchConc == 2   \* records in the raw file when two processes run
MaxRuns == 2        \* process_date runs of the sequential process
FirstYear == 2019   \* first year of the transaction dates of the calendar runs
YearSpan == 9       \* the calendar runs cover FirstYear .. FirstYear + YearSpan

\* ------------------------------------------------------- values and records

Procs == {1, 2}

\* Python None for a string-valued field; SQL NULL for a surrogate key.
None == "None"
NULL == 0

\* mutant of Truthy: the test for a missing external id is dropped
Truthy_Always(x) == TRUE

Truthy(x) == x \notin {None, ""}

\* process_date: retailers = ['retailer_1', 'retailer_2', 'retailer_3']
retailers == <<"retailer_1", "retailer_2", "retailer_3">>

\* load_sales_fact / process_s3_file: required_fields
required_fields ==
    <<"transaction_date", "product_id", "product_name", "transaction_id",
      "quantity", "unit_price", "total_amount", "retailer_id">>

\* A transaction_date string is modelled by the fields datetime.fromisoformat
\* reads from it: <<year, month, day, hour>>.
D_Sat == <<2024, 1, 6, 10>>
D_SatLate == <<2024, 1, 6, 23>>
D_Mon == <<2024, 1, 8, 9>>
D_Bad == <<2024, 13, 1, 0>>

Rec(tid, sku, name, cat, qty, ret, date, cust, store) ==
    [transaction_id |-> tid, product_id |-> sku, product_name |-> name,
     category |-> cat, quantity |-> qty, unit_price |-> "5",
     total_amount |-> "5", retailer_id |-> ret, transaction_date |-> date,
     customer_id |-> cust, store_id |-> store]

\* a well-formed record
R_A == Rec("t1", "P1", "Widget", "tools", "1", "retailer_1", D_Sat, "C1", "S1")
\* the same natural key as R_A with other attributes
R_A2 == Rec("t1", "P1", "Widget v2", "home", "2", "retailer_1", D_SatLate, "C2", None)
\* a second well-formed record: no category, customer or store field
R_B == [transaction_id |-> "t2", product_id |-> "P2", product_name |-> "Gadget",
        quantity |-> "3", unit_price |-> "5", total_amount |-> "15",
        retailer_id |-> "retailer_2", transaction_date |-> D_Mon]
\* the quantity field is missing
R_Miss == [transaction_id |-> "t3", product_id |-> "P1", product_name |-> "Widget",
           unit_price |-> "5", total_amount |-> "5", retailer_id |-> "retailer_1",
           transaction_date |-> D_Sat, customer_id |-> "C1"]
\* the retailer code has no dim_retailer row
R_Unk == Rec("t4", "P2", "Gadget X", "misc", "1", "retailer_9", D_Mon, "", "S2")
\* the quantity is not a number
R_BadQty == Rec("t5", "P1", "Widget", "tools", "abc", "retailer_1", D_Sat, "C1", "S1")
\* the transaction_date is not an ISO date
R_BadDate == Rec("t6", "P2", "Gadget", "", "1", "retailer_2", D_Bad, None, None)

RecordPool == {R_A, R_A2, R_B, R_Miss, R_Unk, R_BadQty, R_BadDate}
\* array elements that are not JSON objects: a number and a string
E_Num == [json_number |-> "5"]
E_Str == [json_string |-> "abc"]

\* `f in record` raises TypeError when record is a number (also null, true,
\* false); on a string it is the substring test, which no field name passes
in_raises(record) == "json_number" \in DOMAIN record

RecordPoolConc == {R_A, R_A2, R_B, R_BadQty}

\* the elements of the partitions of the runs over failing partitions
RecordPoolParts == {R_A, R_B, R_Miss, E_Str, E_Num}

SeqsUpTo(S, n) == UNION {[1..k -> S] : k \in 0..n}

\* record.get(field): None when the field is absent
Get(record, f) == IF f \in DOMAIN record THEN record[f] ELSE None
\* record.get(field, default)
GetOr(record, f, default) == IF f \in DOMAIN record THEN record[f] ELSE default

Range(s) == {s[i] : i \in DOMAIN s}

\* mutant of missing_fields: no field is ever found missing
missing_fields_None(record) == {}

\* missing_fields = [f for f in required_fields if f not in record]
missing_fields(record) ==
    {f \in Range(required_fields) : f \notin DOMAIN record}

\* ----------------------------------------------------------- calendar

IsLeap(y) == (y % 4 = 0) /\ ((y % 100 # 0) \/ (y % 400 = 0))

DaysInMonth(y, m) ==
    IF m = 2 THEN (IF IsLeap(y) THEN 29 ELSE 28)
    ELSE IF m \in {4, 6, 9, 11} THEN 30 ELSE 31

\* datetime.fromisoformat raises ValueError unless the fields are in range
fromisoformat_ok(s) ==
    /\ s[2] \in 1..12
    /\ s[3] \in 1..DaysInMonth(s[1], s[2])
    /\ s[4] \in 0..23

RECURSIVE DaysBeforeMonth(_, _)
DaysBeforeMonth(y, m) ==
    IF m = 1 THEN 0 ELSE DaysBeforeMonth(y, m - 1) + DaysInMonth(y, m - 1)

DaysBeforeYear(y) ==
    (y - 1) * 365 + ((y - 1) \div 4) - ((y - 1) \div 100) + ((y - 1) \div 400)

\* date.toordinal(): 0001-01-01 is day 1
ymd2ord(y, m, d) == DaysBeforeYear(y) + DaysBeforeMonth(y, m) + d

\* mutant of weekday: the week starts on Sunday
weekday_SundayFirst(y, m, d) == ymd2ord(y, m, d) % 7

\* date.weekday(): Monday = 0 .. Sunday = 6
weekday(y, m, d) == (ymd2ord(y, m, d) + 6) % 7

isoweek1monday(y) ==
    LET firstday == ymd2ord(y, 1, 1)
        firstweekday == (firstday + 6) % 7
        week1monday == firstday - firstweekday
    IN  IF firstweekday > 3 THEN week1monday + 7 ELSE week1monday

\* date.isocalendar()[1]
isoweek(y, m, d) ==
    LET today == ymd2ord(y, m, d)
        w == (today - isoweek1monday(y)) \div 7
    IN  IF today < isoweek1monday(y)
          THEN ((today - isoweek1monday(y - 1)) \div 7) + 1
          ELSE IF w >= 52 /\ today >= isoweek1monday(y + 1) THEN 1
          ELSE w + 1

day_names == <<"Monday", "Tuesday", "Wednesday", "Thursday", "Friday",
               "Saturday", "Sunday">>

\* mutant of DateOf: the datetime itself is used as the date
DateOf_Datetime(dt) == dt

\* line 23, date.date(): the calendar day of a datetime
DateOf(dt) == <<dt[1], dt[2], dt[3]>>

\* get_or_create_date_id, lines 24-31 and 51-61: the row derived from a datetime
DateRow(id, dt) ==
    LET y == dt[1]
        m == dt[2]
        d == dt[3]
        day_of_week == weekday(y, m, d) + 1
    IN  [date_id |-> id, date |-> DateOf(dt), year |-> y,
         quarter |-> ((m - 1) \div 3) + 1, month |-> m,
         week |-> isoweek(y, m, d), day |-> d, day_of_week |-> day_of_week,
         day_name |-> day_names[day_of_week], is_weekend |-> day_of_week >= 6]

\* ------------------------------------------------------- raw bucket (S3)

\* An object of the raw bucket: its key name and what download_from_s3 and
\* json.loads make of it.
\*   kind "unreadable":  get_object raises ClientError (download returns None)
\*   kind "get_raises":  get_object or Body.read() raises an exception that is
\*                       no ClientError (EndpointConnectionError,
\*                       ReadTimeoutError, IncompleteReadError)
\*   kind "empty":       zero bytes
\*   kind "badjson":     bytes json.loads rejects
\*   kind "nonarray":    a JSON value that is not a list
\*   kind "array":       a JSON array of the records
\*   kind "list_error":  list_objects_v2 raises ClientError for the prefix
\*   kind "list_raises": list_objects_v2 raises an exception that is no
\*                       ClientError for the prefix
Obj(name, kind, recs) == [name |-> name, kind |-> kind, records |-> recs]

ArrayFile(recs) == Obj("sales_data.json", "array", recs)

\* what list_s3_objects gives when the exception of list_objects_v2 is not
\* caught by its `except ClientError`: no list, the exception
Raised == << [raised |-> TRUE] >>

\* client.list_objects_v2 for the prefix of a source
list_objects_v2(objs) ==
    CASE \E i \in DOMAIN objs : objs[i].kind = "list_raises" -> "EndpointConnectionError"
      [] \E i \in DOMAIN objs : objs[i].kind = "list_error" -> "ClientError"
      [] OTHER -> "ok"

\* list_s3_objects, s3_client.py lines 40-63: the keys under the prefix
\* without those that end with "/" (the key of the prefix itself has the
\* empty name here); [] when the listing raises ClientError; any other
\* exception of list_objects_v2 is not caught
list_s3_objects(objs) ==
    CASE list_objects_v2(objs) = "ok" -> SelectSeq(objs, LAMBDA f : f.name # "")
      [] list_objects_v2(objs) = "ClientError" -> <<>>
      [] OTHER -> Raised

\* download_from_s3, s3_client.py lines 31-38, and json.loads: the object
\* the raw bucket holds under the key at the time of the call.  A key that
\* names no object raises ClientError (NoSuchKey), which like that of an
\* "unreadable" object is caught: the download is None.  The exception of a
\* "get_raises" object is not caught.
download_from_s3(objs, key) ==
    IF \E i \in DOMAIN objs : objs[i].name = key
      THEN objs[CHOOSE i \in DOMAIN objs : objs[i].name = key]
      ELSE Obj(key, "unreadable", <<>>)

\* download_from_s3, s3_client.py lines 33-38: the call ends by an exception
\* that `except ClientError` does not catch
download_raises(f) == f.kind = "get_raises"

\* ingestion/main.py serialize_sales_record, lines 19-34: each field of the
\* SalesRecord becomes the key of its name with the field's value, the
\* transaction_date as its isoformat string (raw_data, which the
\* transformation never reads, is left out of the model).  A SalesRecord has
\* every field: category is required, customer_id and store_id are None
\* when not given.
serialize_sales_record(record) ==
    [retailer_id |-> record.retailer_id,
     transaction_id |-> record.transaction_id,
     product_id |-> record.product_id,
     product_name |-> record.product_name,
     category |-> record.category,
     quantity |-> record.quantity,
     unit_price |-> record.unit_price,
     total_amount |-> record.total_amount,
     transaction_date |-> record.transaction_date,
     customer_id |-> record.customer_id,
     store_id |-> record.store_id]

\* ingestion/main.py upload_to_s3_raw, lines 66-94: the objects of a source
\* after put_object of the serialized records under the key sales_data.json:
\* the object of that key is replaced, or it is added (the last in key order)
upload_to_s3_raw(objs, records) ==
    LET file == ArrayFile([i \in DOMAIN records |-> serialize_sales_record(records[i])])
    IN  IF \E i \in DOMAIN objs : objs[i].name = file.name
          THEN [i \in DOMAIN objs |-> IF objs[i].name = file.name THEN file ELSE objs[i]]
          ELSE Append(objs, file)

\* process_s3_file, lines 291-315: the object gives no list of records to
\* load (download failed or empty, not JSON, not a list, an empty list)
returns_zero(f) == f.kind # "array" \/ Len(f.records) = 0

\* f.endswith('.json')
endswith_json(name) == name \in {"sales_data.json", "extra.json"}

\* what the second source holds beside the batch of the first: nothing, or
\* a marker object and a file that repeats a key of the first source, or a
\* file of two further records
SideFiles ==
    { <<>>,
      << Obj("_SUCCESS", "empty", <<>>), ArrayFile(<<R_A>>) >>,
      << ArrayFile(<<R_B, R_A2>>) >> }

\* the objects a source can hold that yield no record, or end the run
FailingFiles ==
    { << Obj("sales_data.json", "unreadable", <<>>) >>,
      << Obj("sales_data.json", "empty", <<>>) >>,
      << Obj("sales_data.json", "badjson", <<>>) >>,
      << Obj("sales_data.json", "nonarray", <<R_A>>) >>,
      << ArrayFile(<<>>) >>,
      << Obj("", "empty", <<>>), Obj("extra.json", "badjson", <<>>),
         Obj("sales_data.json", "unreadable", <<>>) >>,
      << Obj("sales_data.json", "list_error", <<>>) >>,
      << Obj("sales_data.json", "get_raises", <<>>) >>,
      << Obj("sales_data.json", "list_raises", <<>>) >> }

\* a partition with an element that is no JSON object after a valid record
BrokenFiles == { << ArrayFile(<<R_B, E_Num>>) >> }

\* pre-populated by the schema; never written by the processor
InitialRetailers ==
    { [retailer_id |-> i, retailer_code |-> retailers[i]] : i \in 1..3 }

\* ------------------------------------------------------------------ state

VARIABLES
    bucket,         \* raw bucket: source -> sequence of objects under the date
                    \* prefix, in key order
    s3_bucket_processed,  \* whether S3_BUCKET_PROCESSED is configured
    put_object,     \* what client.put_object does on the processed bucket:
                    \* "ok", "ClientError", or "EndpointConnectionError"
    uploads,        \* per process: the calls of upload_processed_data_to_s3
                    \* made, with their arguments and how they ended
    processed,      \* processed bucket: source -> records written, or NoObject
    dim_date, dim_product, dim_customer, dim_store, dim_retailer,
    fact_sales,     \* committed fact rows
    tx,             \* per process: the batch transaction of load_sales_fact
    pc,             \* per process: position in the code
    runsLeft,       \* per process: process_date runs still to start
    pd,             \* per process: locals of process_date (json_files: the
                    \* keys listed) and of process_s3_file (records: the
                    \* parsed download)
    ld,             \* per process: locals of load_sales_fact; outcome is the
                    \* branch each record of the batch left the loop body by,
                    \* db_begins and db_executes count its storage accesses
    loadLog,        \* per process: what each finished load_sales_fact reported
    runLog,         \* per process: what each finished process_date reported
    returned        \* per dimension: the <<natural key, surrogate key>> pairs
                    \* the resolver calls have returned

db == <<dim_date, dim_product, dim_customer, dim_store, dim_retailer, fact_sales>>
dims == <<dim_date, dim_product, dim_customer, dim_store, dim_retailer>>
s3 == <<bucket, s3_bucket_processed, processed, put_object, uploads>>
vars == <<bucket, s3_bucket_processed, processed, put_object, uploads,
          dim_date, dim_product, dim_customer, dim_store, dim_retailer,
          fact_sales, tx, pc, runsLeft, pd, ld, loadLog, runLog, returned>>

NoObject == << [no_object |-> TRUE] >>

NoTx == [status |-> "none", pending |-> {}]

pd0 == [ri |-> 1, fi |-> 1, json_files |-> <<>>, records |-> <<>>, total_records |-> 0,
        total_files_found |-> 0, total_files_processed |-> 0]

ld0 == [records |-> <<>>, idx |-> 1, inserted_count |-> 0, skipped_count |-> 0,
        error_details |-> <<>>, outcome |-> <<>>, date_id |-> NULL, product_id |-> NULL,
        customer_id |-> NULL, store_id |-> NULL, retailer_id |-> NULL,
        db_begins |-> 0, db_executes |-> 0]

\* storage access of a load: b more blocks "with self.engine.begin() as conn"
\* entered and e more conn.execute calls made
Sql(l, b, e) == [l EXCEPT !.db_begins = @ + b, !.db_executes = @ + e]

InitCommon ==
    /\ processed = [i \in 1..3 |-> NoObject]
    /\ uploads = [p \in Procs |-> <<>>]
    /\ dim_date = {}
    /\ dim_product = {}
    /\ dim_customer = {}
    /\ dim_store = {}
    /\ dim_retailer = InitialRetailers
    /\ fact_sales = {}
    /\ tx = [p \in Procs |-> NoTx]
    /\ pc = [p \in Procs |-> "idle"]
    /\ pd = [p \in Procs |-> pd0]
    /\ ld = [p \in Procs |-> ld0]
    /\ loadLog = [p \in Procs |-> <<>>]
    /\ runLog = [p \in Procs |-> <<>>]
    /\ returned = [date |-> {}, product |-> {}, customer |-> {}, store |-> {}]

\* one process runs process_date MaxRuns times on the same raw bucket
Init ==
    /\ \E batch \in SeqsUpTo(RecordPool, MaxBatch) : \E side \in SideFiles :
          bucket = <<  <<ArrayFile(batch)>>, side, <<>>  >>
    /\ s3_bucket_processed = TRUE
    /\ put_object = "ok"
    /\ runsLeft = [p \in Procs |-> IF p = 1 THEN MaxRuns ELSE 0]
    /\ InitCommon

\* the batches of the concurrent runs: no record twice in a batch (R_A and
\* R_A2 give a batch two records of one key; repeated records are among the
\* batches of the sequential runs)
BatchesConc ==
    { s \in SeqsUpTo(RecordPoolConc, MaxBatchConc) :
        \A i, j \in DOMAIN s : s[i] = s[j] => i = j }

\* two processes run process_date once each, concurrently, on the same bucket
InitConc ==
    /\ \E batch \in BatchesConc :
          bucket = <<  <<ArrayFile(batch)>>, <<>>, <<>>  >>
    /\ s3_bucket_processed = TRUE
    /\ put_object = "ok"
    /\ runsLeft = [p \in Procs |-> 1]
    /\ InitCommon

\* ------------------------------------------------------------- tables

\* mutant of CommitRow: the inserted row is never committed
CommitRow_Lost(table, row) == table

\* a resolver's INSERT and the commit at the end of its own
\* `with self.engine.begin()` block: the row is in the table from then on,
\* whatever happens to the batch transaction or to the process
CommitRow(table, row) == table \cup {row}

\* next value of a table's serial surrogate key
NextId(table) == Cardinality(table) + 1

\* SELECT date_id FROM dim_date WHERE date = :date  (fetchone)
SelectDate(d) == {r \in dim_date : r.date = d}
\* mutant of SelectProduct: the lookup never finds the product
SelectProduct_None(sku) == {r \in dim_product : FALSE}
\* SELECT product_id FROM dim_product WHERE product_sku = :sku
SelectProduct(sku) == {r \in dim_product : r.product_sku = sku}
\* mutant of SelectCustomer: the lookup never finds the customer
SelectCustomer_None(ext) == {r \in dim_customer : FALSE}
\* SELECT customer_id FROM dim_customer WHERE customer_external_id = :ext_id
SelectCustomer(ext) == {r \in dim_customer : r.customer_external_id = ext}
\* SELECT store_id FROM dim_store WHERE store_external_id = :ext_id
SelectStore(ext) == {r \in dim_store : r.store_external_id = ext}
\* mutant of SelectRetailer: the lookup ignores the code
SelectRetailer_Any(code) == dim_retailer
\* SELECT retailer_id FROM dim_retailer WHERE retailer_code = :code
SelectRetailer(code) == {r \in dim_retailer : r.retailer_code = code}

\* mutant of FactKey: a conflict target that also holds the quantity
FactKey_WithQuantity(row) ==
    <<row.transaction_id, row.product_id, row.retailer_id, row.quantity>>

\* ON CONFLICT (transaction_id, product_id, retailer_id): the conflict target
FactKey(row) == <<row.transaction_id, row.product_id, row.retailer_id>>

\* the integer / numeric columns accept these values; any other raises DataError
IsNumeric(v) == v \in {"1", "2", "3", "5", "15"}

\* --------------------------------------------------- load_sales_fact helpers

CurRec(p) == ld[p].records[ld[p].idx]

\* An entry of error_details.  "Record {idx}: Missing required fields" names the
\* record by its index (tid = None); "Error loading record {transaction_id}"
\* names it by record.get('transaction_id', '#idx').
ErrorEntry(i, tid, msg) == [idx |-> i, tid |-> tid, msg |-> msg]

\* mutant of SkipMissing: the message numbers the records from 1
SkipMissing_OneBased(l) ==
    [l EXCEPT !.error_details =
                  Append(@, ErrorEntry(l.idx, None, "Missing required fields")),
              !.skipped_count = @ + 1,
              !.outcome = Append(@, "error"),
              !.idx = @ + 1]

\* lines 178-182: a record with missing fields
SkipMissing(l) ==
    [l EXCEPT !.error_details =
                  Append(@, ErrorEntry(l.idx - 1, None, "Missing required fields")),
              !.skipped_count = @ + 1,
              !.outcome = Append(@, "error"),
              !.idx = @ + 1]

\* mutant of Caught: the caught record is listed but not counted as skipped
Caught_NoSkip(l, msg) ==
    [l EXCEPT !.error_details =
                  Append(@, ErrorEntry(l.idx - 1,
                                       Get(l.records[l.idx], "transaction_id"), msg)),
              !.outcome = Append(@, "error"),
              !.idx = @ + 1]

\* lines 227-231: except Exception
Caught(l, msg) ==
    [l EXCEPT !.error_details =
                  Append(@, ErrorEntry(l.idx - 1,
                                       Get(l.records[l.idx], "transaction_id"), msg)),
              !.skipped_count = @ + 1,
              !.outcome = Append(@, "error"),
              !.idx = @ + 1]

\* mutant of CountSkipped: an ignored insert is not counted
CountSkipped_NoCount(l) ==
    [l EXCEPT !.outcome = Append(@, "skipped"), !.idx = @ + 1]

\* mutant of CountInserted: an inserted record is counted in both counters
CountInserted_AlsoSkipped(l) ==
    [l EXCEPT !.inserted_count = @ + 1,
              !.skipped_count = @ + 1,
              !.outcome = Append(@, "inserted"),
              !.idx = @ + 1]

\* lines 222-226: the insert returned a row / returned none
CountInserted(l) ==
    [l EXCEPT !.inserted_count = @ + 1,
              !.outcome = Append(@, "inserted"),
              !.idx = @ + 1]
CountSkipped(l) ==
    [l EXCEPT !.skipped_count = @ + 1,
              !.outcome = Append(@, "skipped"),
              !.idx = @ + 1]

\* a failed statement aborts the open transaction and undoes its writes
Abort(t) == [status |-> "aborted", pending |-> {}]

\* the unique index of a dimension's natural key rejects a second row
UniqueViolation(existing) == existing # {}

\* mutant of FactRow: the store key is taken from the customer key
FactRow_StoreFromCustomer(l, record) ==
    [date_id |-> l.date_id, product_id |-> l.product_id,
     customer_id |-> l.customer_id, store_id |-> l.customer_id,
     retailer_id |-> l.retailer_id, transaction_id |-> record.transaction_id,
     quantity |-> record.quantity, unit_price |-> record.unit_price,
     total_amount |-> record.total_amount]

\* the row the fact INSERT of lines 197-221 writes
FactRow(l, record) ==
    [date_id |-> l.date_id, product_id |-> l.product_id,
     customer_id |-> l.customer_id, store_id |-> l.store_id,
     retailer_id |-> l.retailer_id, transaction_id |-> record.transaction_id,
     quantity |-> record.quantity, unit_price |-> record.unit_price,
     total_amount |-> record.total_amount]

Keys(rows) == {FactKey(r) : r \in rows}

\* another transaction holds an uncommitted row with this key
HeldByOther(p, k) == \E q \in Procs \ {p} : k \in Keys(tx[q].pending)

\* upload_to_s3, s3_client.py lines 17-29: True when put_object returns,
\* False when it raises ClientError; any other exception is not caught
upload_to_s3 ==
    CASE put_object = "ok" -> "True"
      [] put_object = "ClientError" -> "False"
      [] OTHER -> "raised"

\* mutant of upload_result: the test for an empty list is dropped
upload_result_NoEmptyTest(records) ==
    IF ~s3_bucket_processed THEN "False"
    ELSE upload_to_s3

\* upload_processed_data_to_s3, lines 255-278: what the call returns
upload_result(records) ==
    IF ~s3_bucket_processed THEN "False"
    ELSE IF Len(records) = 0 THEN "False"
    ELSE upload_to_s3

\* an entry of uploads
UploadCall(ri, records) ==
    [source |-> ri, records |-> records, result |-> upload_result(records)]

\* upload_processed_data_to_s3, lines 255-278: the processed bucket after
\* the call; the object of the source and date is replaced by the records
upload_processed_data_to_s3(records, ri) ==
    IF upload_result(records) = "True"
      THEN [processed EXCEPT ![ri] = records]
      ELSE processed

\* mutant of cleaned_records: every parsed record is kept
cleaned_records_All(records) == records

\* process_s3_file, lines 332-339
cleaned_records(records) ==
    SelectSeq(records, LAMBDA r : missing_fields(r) = {})

\* ---------------------------------------------------------- process_date

\* lines 350-358
StartProcessDate(p) ==
    /\ pc[p] \in {"idle", "crashed"}
    /\ runsLeft[p] > 0
    /\ runsLeft' = [runsLeft EXCEPT ![p] = @ - 1]
    /\ pd' = [pd EXCEPT ![p] = pd0]
    /\ pc' = [pc EXCEPT ![p] = "list"]
    /\ UNCHANGED <<s3, db, tx, ld, loadLog, runLog, returned>>

\* lines 360-371: list_s3_objects and the .json filter
ListS3Objects(p) ==
    /\ pc[p] = "list"
    /\ LET files == list_s3_objects(bucket[pd[p].ri])
           keys == [i \in DOMAIN files |-> files[i].name]
           json_files == SelectSeq(keys, endswith_json)
       IN  IF files = Raised
             THEN \* line 364: the exception of list_objects_v2 leaves
                  \* list_s3_objects, process_date and main
                  /\ pd' = pd
                  /\ pc' = [pc EXCEPT ![p] = "raised"]
             ELSE /\ pd' = [pd EXCEPT ![p].json_files = json_files,
                                      ![p].total_files_found = @ + Len(json_files),
                                      ![p].fi = 1]
                  /\ pc' = [pc EXCEPT ![p] = "file"]
    /\ UNCHANGED <<s3, db, tx, runsLeft, ld, loadLog, runLog, returned>>

\* lines 373-375 and process_s3_file, lines 289-339: the GET of the key
\* listed, the parse and the cleaning loop.  The object is read as the raw
\* bucket holds it now, which need not be what it held when it was listed.
ProcessS3File(p) ==
    /\ pc[p] = "file"
    /\ pd[p].fi <= Len(pd[p].json_files)
    /\ LET f == download_from_s3(bucket[pd[p].ri], pd[p].json_files[pd[p].fi])
       IN  IF download_raises(f)
             THEN \* line 292: the exception of get_object or Body.read()
                  \* leaves download_from_s3, process_s3_file, process_date
                  \* and main
                  /\ pd' = [pd EXCEPT ![p].total_files_processed = @ + 1]
                  /\ pc' = [pc EXCEPT ![p] = "raised"]
             ELSE IF returns_zero(f)
             THEN \* return 0
                  /\ pd' = [pd EXCEPT ![p].total_files_processed = @ + 1,
                                      ![p].fi = @ + 1]
                  /\ pc' = pc
             ELSE IF \E i \in DOMAIN f.records : in_raises(f.records[i])
             THEN \* line 338: TypeError, raised outside every try block; it
                  \* leaves process_s3_file, process_date and main
                  /\ pd' = [pd EXCEPT ![p].total_files_processed = @ + 1]
                  /\ pc' = [pc EXCEPT ![p] = "raised"]
             ELSE /\ pd' = [pd EXCEPT ![p].total_files_processed = @ + 1,
                                      ![p].records = f.records]
                  /\ pc' = [pc EXCEPT ![p] = "upload"]
    /\ UNCHANGED <<s3, db, tx, runsLeft, ld, loadLog, runLog, returned>>

\* process_s3_file, lines 341-346: the PUT of the cleaned records, a second
\* round trip to S3 after the GET, and the entry of load_sales_fact (line
\* 170) with all parsed records
ProcessS3FileUpload(p) ==
    /\ pc[p] = "upload"
    /\ LET records == pd[p].records
           cleaned == cleaned_records(records)
       IN  IF Len(cleaned) > 0 /\ upload_result(cleaned) = "raised"
             THEN \* lines 342-343: the exception of put_object leaves
                  \* upload_to_s3, process_s3_file, process_date and main
                  /\ uploads' = [uploads EXCEPT ![p] =
                                    Append(@, UploadCall(pd[p].ri, cleaned))]
                  /\ pc' = [pc EXCEPT ![p] = "raised"]
                  /\ UNCHANGED <<processed, ld, tx>>
             ELSE /\ processed' =
                        IF Len(cleaned) > 0
                          THEN upload_processed_data_to_s3(cleaned, pd[p].ri)
                          ELSE processed
                  /\ uploads' =
                        IF Len(cleaned) > 0
                          THEN [uploads EXCEPT ![p] =
                                   Append(@, UploadCall(pd[p].ri, cleaned))]
                          ELSE uploads
                  /\ ld' = [ld EXCEPT ![p] = Sql([ld0 EXCEPT !.records = records], 1, 0)]
                  /\ tx' = [tx EXCEPT ![p] = [status |-> "open", pending |-> {}]]
                  /\ pc' = [pc EXCEPT ![p] = "record"]
    /\ UNCHANGED <<bucket, s3_bucket_processed, put_object, db, runsLeft, pd,
                   loadLog, runLog, returned>>

\* line 360: the next retailer
NextRetailer(p) ==
    /\ pc[p] = "file"
    /\ pd[p].fi > Len(pd[p].json_files)
    /\ pd[p].ri < Len(retailers)
    /\ pd' = [pd EXCEPT ![p].ri = @ + 1]
    /\ pc' = [pc EXCEPT ![p] = "list"]
    /\ UNCHANGED <<s3, db, tx, runsLeft, ld, loadLog, runLog, returned>>

\* lines 378-383: the summary and the return value
Summary(p) ==
    /\ pc[p] = "file"
    /\ pd[p].fi > Len(pd[p].json_files)
    /\ pd[p].ri = Len(retailers)
    /\ runLog' = [runLog EXCEPT ![p] =
                     Append(@, [total_files_found |-> pd[p].total_files_found,
                                total_files_processed |-> pd[p].total_files_processed,
                                total_records |-> pd[p].total_records,
                                fact_after |-> fact_sales])]
    /\ pc' = [pc EXCEPT ![p] = "idle"]
    /\ UNCHANGED <<s3, db, tx, runsLeft, pd, ld, loadLog, returned>>

\* ------------------------------------------------------- load_sales_fact

\* lines 171-185: validation and datetime.fromisoformat of the next record
LoadRecord(p) ==
    /\ pc[p] = "record"
    /\ ld[p].idx <= Len(ld[p].records)
    /\ LET record == CurRec(p)
       IN  IF missing_fields(record) # {}
             THEN /\ ld' = [ld EXCEPT ![p] = SkipMissing(@)]
                  /\ pc' = pc
             ELSE IF ~fromisoformat_ok(record.transaction_date)
             THEN /\ ld' = [ld EXCEPT ![p] = Caught(@, "Invalid isoformat string")]
                  /\ pc' = pc
             ELSE /\ ld' = ld
                  /\ pc' = [pc EXCEPT ![p] = "date_sel"]
    /\ UNCHANGED <<s3, db, tx, runsLeft, pd, loadLog, runLog, returned>>

\* a resolver call returns the surrogate key id for the natural key
Returned(dim, key, id) ==
    [returned EXCEPT ![dim] = @ \cup {<<key, id>>}]

\* get_or_create_date_id, lines 33-42: the lookup
DateSelect(p) ==
    /\ pc[p] = "date_sel"
    /\ LET date_str == DateOf(CurRec(p).transaction_date)
           rows == SelectDate(date_str)
       IN  IF rows # {}
             THEN \E row \in rows :
                    /\ ld' = [ld EXCEPT ![p] = Sql([@ EXCEPT !.date_id = row.date_id], 1, 1)]
                    /\ returned' = Returned("date", date_str, row.date_id)
                    /\ pc' = [pc EXCEPT ![p] = "prod_sel"]
             ELSE /\ ld' = [ld EXCEPT ![p] = Sql(@, 1, 1)]
                  /\ returned' = returned
                  /\ pc' = [pc EXCEPT ![p] = "date_ins"]
    /\ UNCHANGED <<s3, db, tx, runsLeft, pd, loadLog, runLog>>

\* get_or_create_date_id, lines 44-63: the insert and the commit
DateInsert(p) ==
    /\ pc[p] = "date_ins"
    /\ LET dt == CurRec(p).transaction_date
           id == NextId(dim_date)
       IN  IF UniqueViolation(SelectDate(DateOf(dt)))
             THEN /\ ld' = [ld EXCEPT ![p] = Caught(Sql(@, 0, 1), "UniqueViolation")]
                  /\ pc' = [pc EXCEPT ![p] = "record"]
                  /\ UNCHANGED <<dim_date, returned>>
             ELSE /\ dim_date' = CommitRow(dim_date, DateRow(id, dt))
                  /\ ld' = [ld EXCEPT ![p] = Sql([@ EXCEPT !.date_id = id], 0, 1)]
                  /\ returned' = Returned("date", DateOf(dt), id)
                  /\ pc' = [pc EXCEPT ![p] = "prod_sel"]
    /\ UNCHANGED <<s3, dim_product, dim_customer, dim_store, dim_retailer,
                   fact_sales, tx, runsLeft, pd, loadLog, runLog>>

\* get_or_create_product_id, lines 67-75: the lookup
ProductSelect(p) ==
    /\ pc[p] = "prod_sel"
    /\ LET rows == SelectProduct(CurRec(p).product_id)
       IN  IF rows # {}
             THEN \E row \in rows :
                    /\ ld' = [ld EXCEPT ![p] = Sql([@ EXCEPT !.product_id = row.product_id], 1, 1)]
                    /\ pc' = [pc EXCEPT ![p] = "prod_upd"]
             ELSE /\ ld' = [ld EXCEPT ![p] = Sql(@, 1, 1)]
                  /\ pc' = [pc EXCEPT ![p] = "prod_ins"]
    /\ UNCHANGED <<s3, db, tx, runsLeft, pd, loadLog, runLog, returned>>

\* mutant of UpdateProduct: the name of an existing product is kept
UpdateProduct_KeepName(rows, id, name, category) ==
    { IF r.product_id = id THEN [r EXCEPT !.category = category] ELSE r : r \in rows }

\* lines 77-84: UPDATE dim_product SET product_name, category WHERE product_id
UpdateProduct(rows, id, name, category) ==
    { IF r.product_id = id
        THEN [r EXCEPT !.product_name = name, !.category = category]
        ELSE r : r \in rows }

\* mutant of ProductUpdate: an existing product is returned as it is
ProductUpdate_NoOverwrite(p) ==
    /\ pc[p] = "prod_upd"
    /\ LET record == CurRec(p)
       IN  /\ dim_product' = dim_product
           /\ returned' = Returned("product", record.product_id, ld[p].product_id)
    /\ ld' = [ld EXCEPT ![p] = Sql(@, 0, 1)]
    /\ pc' = [pc EXCEPT ![p] = "cust_sel"]
    /\ UNCHANGED <<s3, dim_date, dim_customer, dim_store, dim_retailer,
                   fact_sales, tx, runsLeft, pd, loadLog, runLog>>

\* get_or_create_product_id, lines 75-85: the update, the commit, return row[0]
ProductUpdate(p) ==
    /\ pc[p] = "prod_upd"
    /\ LET record == CurRec(p)
       IN  /\ dim_product' = UpdateProduct(dim_product, ld[p].product_id,
                                           record.product_name,
                                           GetOr(record, "category", ""))
           /\ returned' = Returned("product", record.product_id, ld[p].product_id)
    /\ ld' = [ld EXCEPT ![p] = Sql(@, 0, 1)]
    /\ pc' = [pc EXCEPT ![p] = "cust_sel"]
    /\ UNCHANGED <<s3, dim_date, dim_customer, dim_store, dim_retailer,
                   fact_sales, tx, runsLeft, pd, loadLog, runLog>>

\* lines 88-95: the row INSERT INTO dim_product writes
ProductRow(id, record) ==
    [product_id |-> id, product_sku |-> record.product_id,
     product_name |-> record.product_name,
     category |-> GetOr(record, "category", "")]

\* get_or_create_product_id, lines 87-96: the insert and the commit
ProductInsert(p) ==
    /\ pc[p] = "prod_ins"
    /\ LET record == CurRec(p)
           id == NextId(dim_product)
       IN  IF UniqueViolation(SelectProduct(record.product_id))
             THEN /\ ld' = [ld EXCEPT ![p] = Caught(Sql(@, 0, 1), "UniqueViolation")]
                  /\ pc' = [pc EXCEPT ![p] = "record"]
                  /\ UNCHANGED <<dim_product, returned>>
             ELSE /\ dim_product' = CommitRow(dim_product, ProductRow(id, record))
                  /\ ld' = [ld EXCEPT ![p] = Sql([@ EXCEPT !.product_id = id], 0, 1)]
                  /\ returned' = Returned("product", record.product_id, id)
                  /\ pc' = [pc EXCEPT ![p] = "cust_sel"]
    /\ UNCHANGED <<s3, dim_date, dim_customer, dim_store, dim_retailer,
                   fact_sales, tx, runsLeft, pd, loadLog, runLog>>

\* get_or_create_customer_id, lines 100-112: the None test and the lookup
CustomerSelect(p) ==
    /\ pc[p] = "cust_sel"
    /\ LET customer_external_id == Get(CurRec(p), "customer_id")
           rows == SelectCustomer(customer_external_id)
       IN  IF ~Truthy(customer_external_id)
             THEN /\ ld' = [ld EXCEPT ![p].customer_id = NULL]
                  /\ returned' = Returned("customer", customer_external_id, NULL)
                  /\ pc' = [pc EXCEPT ![p] = "store_sel"]
             ELSE IF rows # {}
             THEN \E row \in rows :
                    /\ ld' = [ld EXCEPT ![p] = Sql([@ EXCEPT !.customer_id = row.customer_id], 1, 1)]
                    /\ returned' = Returned("customer", customer_external_id,
                                            row.customer_id)
                    /\ pc' = [pc EXCEPT ![p] = "store_sel"]
             ELSE /\ ld' = [ld EXCEPT ![p] = Sql(@, 1, 1)]
                  /\ returned' = returned
                  /\ pc' = [pc EXCEPT ![p] = "cust_ins"]
    /\ UNCHANGED <<s3, db, tx, runsLeft, pd, loadLog, runLog>>

\* get_or_create_customer_id, lines 114-123: the insert and the commit
CustomerInsert(p) ==
    /\ pc[p] = "cust_ins"
    /\ LET customer_external_id == Get(CurRec(p), "customer_id")
           id == NextId(dim_customer)
       IN  IF UniqueViolation(SelectCustomer(customer_external_id))
             THEN /\ ld' = [ld EXCEPT ![p] = Caught(Sql(@, 0, 1), "UniqueViolation")]
                  /\ pc' = [pc EXCEPT ![p] = "record"]
                  /\ UNCHANGED <<dim_customer, returned>>
             ELSE /\ dim_customer' = CommitRow(dim_customer,
                        [customer_id |-> id,
                         customer_external_id |-> customer_external_id])
                  /\ ld' = [ld EXCEPT ![p] = Sql([@ EXCEPT !.customer_id = id], 0, 1)]
                  /\ returned' = Returned("customer", customer_external_id, id)
                  /\ pc' = [pc EXCEPT ![p] = "store_sel"]
    /\ UNCHANGED <<s3, dim_date, dim_product, dim_store, dim_retailer,
                   fact_sales, tx, runsLeft, pd, loadLog, runLog>>

\* get_or_create_store_id, lines 127-139: the None test and the lookup
StoreSelect(p) ==
    /\ pc[p] = "store_sel"
    /\ LET store_external_id == Get(CurRec(p), "store_id")
           rows == SelectStore(store_external_id)
       IN  IF ~Truthy(store_external_id)
             THEN /\ ld' = [ld EXCEPT ![p].store_id = NULL]
                  /\ returned' = Returned("store", store_external_id, NULL)
                  /\ pc' = [pc EXCEPT ![p] = "retailer"]
             ELSE IF rows # {}
             THEN \E row \in rows :
                    /\ ld' = [ld EXCEPT ![p] = Sql([@ EXCEPT !.store_id = row.store_id], 1, 1)]
                    /\ returned' = Returned("store", store_external_id, row.store_id)
                    /\ pc' = [pc EXCEPT ![p] = "retailer"]
             ELSE /\ ld' = [ld EXCEPT ![p] = Sql(@, 1, 1)]
                  /\ returned' = returned
                  /\ pc' = [pc EXCEPT ![p] = "store_ins"]
    /\ UNCHANGED <<s3, db, tx, runsLeft, pd, loadLog, runLog>>

\* get_or_create_store_id, lines 141-150: the insert and the commit
StoreInsert(p) ==
    /\ pc[p] = "store_ins"
    /\ LET store_external_id == Get(CurRec(p), "store_id")
           id == NextId(dim_store)
       IN  IF UniqueViolation(SelectStore(store_external_id))
             THEN /\ ld' = [ld EXCEPT ![p] = Caught(Sql(@, 0, 1), "UniqueViolation")]
                  /\ pc' = [pc EXCEPT ![p] = "record"]
                  /\ UNCHANGED <<dim_store, returned>>
             ELSE /\ dim_store' = CommitRow(dim_store,
                        [store_id |-> id, store_external_id |-> store_external_id])
                  /\ ld' = [ld EXCEPT ![p] = Sql([@ EXCEPT !.store_id = id], 0, 1)]
                  /\ returned' = Returned("store", store_external_id, id)
                  /\ pc' = [pc EXCEPT ![p] = "retailer"]
    /\ UNCHANGED <<s3, dim_date, dim_product, dim_customer, dim_retailer,
                   fact_sales, tx, runsLeft, pd, loadLog, runLog>>

\* mutant of GetRetailerId: a row is created for an unknown code
GetRetailerId_Creates(p) ==
    /\ pc[p] = "retailer"
    /\ LET code == CurRec(p).retailer_id
           rows == SelectRetailer(code)
           id == NextId(dim_retailer)
       IN  IF rows # {}
             THEN \E row \in rows :
                    /\ ld' = [ld EXCEPT ![p] = Sql([@ EXCEPT !.retailer_id = row.retailer_id], 1, 1)]
                    /\ dim_retailer' = dim_retailer
             ELSE /\ ld' = [ld EXCEPT ![p] = Sql([@ EXCEPT !.retailer_id = id], 1, 2)]
                  /\ dim_retailer' = dim_retailer \cup
                        {[retailer_id |-> id, retailer_code |-> code]}
    /\ pc' = [pc EXCEPT ![p] = "fact"]
    /\ UNCHANGED <<s3, dim_date, dim_product, dim_customer, dim_store, fact_sales,
                   tx, runsLeft, pd, loadLog, runLog, returned>>

\* get_retailer_id, lines 152-162: read-only; ValueError for an unknown code
GetRetailerId(p) ==
    /\ pc[p] = "retailer"
    /\ LET rows == SelectRetailer(CurRec(p).retailer_id)
       IN  IF rows # {}
             THEN \E row \in rows :
                    /\ ld' = [ld EXCEPT ![p] = Sql([@ EXCEPT !.retailer_id = row.retailer_id], 1, 1)]
                    /\ pc' = [pc EXCEPT ![p] = "fact"]
             ELSE /\ ld' = [ld EXCEPT ![p] = Caught(Sql(@, 1, 1), "Retailer code not found")]
                  /\ pc' = [pc EXCEPT ![p] = "record"]
    /\ UNCHANGED <<s3, db, tx, runsLeft, pd, loadLog, runLog, returned>>

\* lines 197-226: INSERT INTO fact_sales ... ON CONFLICT DO NOTHING RETURNING,
\* on the connection of the batch transaction
InsertFact(p) ==
    /\ pc[p] = "fact"
    /\ LET record == CurRec(p)
           row == FactRow(ld[p], record)
       IN  IF tx[p].status = "aborted"
             THEN \* current transaction is aborted, commands ignored
                  /\ ld' = [ld EXCEPT ![p] = Caught(Sql(@, 0, 1), "InFailedSqlTransaction")]
                  /\ tx' = tx
             ELSE IF ~(IsNumeric(record.quantity) /\ IsNumeric(record.unit_price)
                        /\ IsNumeric(record.total_amount))
             THEN \* the statement fails: the transaction is aborted
                  /\ ld' = [ld EXCEPT ![p] = Caught(Sql(@, 0, 1), "DataError")]
                  /\ tx' = [tx EXCEPT ![p] = Abort(@)]
             ELSE IF FactKey(row) \in Keys(fact_sales \cup tx[p].pending)
             THEN \* conflict: DO NOTHING, no row returned
                  /\ ld' = [ld EXCEPT ![p] = CountSkipped(Sql(@, 0, 1))]
                  /\ tx' = tx
             ELSE \* waits while another transaction holds the key uncommitted
                  /\ ~HeldByOther(p, FactKey(row))
                  /\ ld' = [ld EXCEPT ![p] = CountInserted(Sql(@, 0, 1))]
                  /\ tx' = [tx EXCEPT ![p].pending = @ \cup {row}]
    /\ pc' = [pc EXCEPT ![p] = "record"]
    /\ UNCHANGED <<s3, db, runsLeft, pd, loadLog, runLog, returned>>

\* lines 170 and 233-241: the end of the `with` block commits the batch
\* transaction (a COMMIT of an aborted transaction is a ROLLBACK), and
\* load_sales_fact returns inserted_count to process_s3_file and process_date
\* (lines 346, 375-376)
Commit(p) ==
    /\ pc[p] = "record"
    /\ ld[p].idx > Len(ld[p].records)
    /\ fact_sales' = IF tx[p].status = "open"
                       THEN fact_sales \cup tx[p].pending
                       ELSE fact_sales
    /\ tx' = [tx EXCEPT ![p] = NoTx]
    /\ loadLog' = [loadLog EXCEPT ![p] =
                      Append(@, [run |-> Len(runLog[p]) + 1,
                                 source |-> pd[p].ri,
                                 records |-> ld[p].records,
                                 inserted_count |-> ld[p].inserted_count,
                                 skipped_count |-> ld[p].skipped_count,
                                 error_details |-> ld[p].error_details,
                                 outcome |-> ld[p].outcome,
                                 fact_before |-> fact_sales,
                                 fact_after |-> fact_sales'])]
    /\ pd' = [pd EXCEPT ![p].total_records = @ + ld[p].inserted_count,
                        ![p].fi = @ + 1]
    /\ pc' = [pc EXCEPT ![p] = "file"]
    /\ UNCHANGED <<s3, dims, runsLeft, ld, runLog, returned>>

\* ------------------------------------------------------------ specification

Step(p) ==
    \/ StartProcessDate(p)
    \/ ListS3Objects(p)
    \/ ProcessS3File(p)
    \/ ProcessS3FileUpload(p)
    \/ NextRetailer(p)
    \/ Summary(p)
    \/ LoadRecord(p)
    \/ DateSelect(p)
    \/ DateInsert(p)
    \/ ProductSelect(p)
    \/ ProductUpdate(p)
    \/ ProductInsert(p)
    \/ CustomerSelect(p)
    \/ CustomerInsert(p)
    \/ StoreSelect(p)
    \/ StoreInsert(p)
    \/ GetRetailerId(p)
    \/ InsertFact(p)
    \/ Commit(p)

Next == \E p \in Procs : Step(p)

\* the processed bucket: not configured; configured and writable; configured
\* and put_object rejected; configured and the endpoint not reachable
ProcessedModes ==
    { <<FALSE, "ok">>, <<TRUE, "ok">>, <<TRUE, "ClientError">>,
      <<TRUE, "EndpointConnectionError">> }

\* one process, one run over sources of which some yield no record, with
\* and without a configured processed bucket; the first source holds
\* nothing, a failing object or a partition that loads
InitParts ==
    /\ \E batch \in SeqsUpTo(RecordPoolParts, MaxBatchConc) :
       \E second \in FailingFiles \cup SideFiles \cup BrokenFiles :
       \E first \in FailingFiles \cup {<<>>, <<ArrayFile(<<R_A>>)>>} :
          bucket = <<  first, second, <<ArrayFile(batch)>>  >>
    /\ \E mode \in ProcessedModes :
          s3_bucket_processed = mode[1] /\ put_object = mode[2]
    /\ runsLeft = [p \in Procs |-> IF p = 1 THEN 1 ELSE 0]
    /\ InitCommon

\* the transaction_date strings of the calendar runs: every year-month-day
\* combination of the years covered, those that name no calendar day included
DateInputs ==
    { <<y, m, d, 10>> : y \in FirstYear..(FirstYear + YearSpan),
                        m \in 1..12, d \in 1..31 }

\* one process, MaxRuns runs over one record with any transaction date
InitDates ==
    /\ \E dt \in DateInputs :
          bucket = <<  <<ArrayFile(<<[R_A EXCEPT !.transaction_date = dt]>>)>>,
                       <<>>, <<>>  >>
    /\ s3_bucket_processed = TRUE
    /\ put_object = "ok"
    /\ runsLeft = [p \in Procs |-> IF p = 1 THEN MaxRuns ELSE 0]
    /\ InitCommon

\* mutant of Crash: the rows of the open batch transaction are committed
Crash_Commits(p) ==
    /\ pc[p] \notin {"idle", "raised", "crashed"}
    /\ runsLeft[p] > 0
    /\ pc' = [pc EXCEPT ![p] = "crashed"]
    /\ tx' = [tx EXCEPT ![p] = NoTx]
    /\ fact_sales' = fact_sales \cup tx[p].pending
    /\ UNCHANGED <<s3, dims, runsLeft, pd, ld, loadLog, runLog, returned>>

\* The process dies inside a run of process_date.  The server rolls back the
\* batch transaction its connection had open; what was committed stays.  A
\* death is taken only while a run remains to be started afterwards.
Crash(p) ==
    /\ pc[p] \notin {"idle", "raised", "crashed"}
    /\ runsLeft[p] > 0
    /\ pc' = [pc EXCEPT ![p] = "crashed"]
    /\ tx' = [tx EXCEPT ![p] = NoTx]
    /\ UNCHANGED <<s3, db, runsLeft, pd, ld, loadLog, runLog, returned>>

NextCrash == Next \/ \E p \in Procs : Crash(p)

\* the partitions of the runs with a process death
RecordPoolCrash == {R_A, R_A2, R_B, R_BadQty, R_Unk}

\* one process, MaxRuns runs of which all but the last may die
InitCrash ==
    /\ \E batch \in SeqsUpTo(RecordPoolCrash, MaxBatchConc) : \E side \in SideFiles :
          bucket = <<  <<ArrayFile(batch)>>, side, <<>>  >>
    /\ s3_bucket_processed = TRUE
    /\ put_object = "ok"
    /\ runsLeft = [p \in Procs |-> IF p = 1 THEN MaxRuns ELSE 0]
    /\ InitCommon

\* runs of process_date with process deaths
SpecCrash == InitCrash /\ [][NextCrash]_vars

\* upload_processed_data_to_s3 called on its own, once by each process, with
\* the list of records of the first source as its argument
UploadProcessedData(p) ==
    /\ pc[p] = "idle"
    /\ uploads[p] = <<>>
    /\ LET records == bucket[1][1].records
       IN  /\ processed' = upload_processed_data_to_s3(records, 1)
           /\ uploads' = [uploads EXCEPT ![p] = Append(@, UploadCall(1, records))]
           /\ pc' = IF upload_result(records) = "raised"
                      THEN [pc EXCEPT ![p] = "raised"]
                      ELSE pc
    /\ UNCHANGED <<bucket, s3_bucket_processed, put_object, db, tx, runsLeft, pd,
                   ld, loadLog, runLog, returned>>

NextUpload == \E p \in Procs : UploadProcessedData(p)

\* any list of up to MaxBatch records, any state of the processed bucket
InitUpload ==
    /\ \E batch \in SeqsUpTo(RecordPool, MaxBatch) :
          bucket = <<  <<ArrayFile(batch)>>, <<>>, <<>>  >>
    /\ \E mode \in ProcessedModes :
          s3_bucket_processed = mode[1] /\ put_object = mode[2]
    /\ runsLeft = [p \in Procs |-> 0]
    /\ InitCommon

\* calls of upload_processed_data_to_s3 alone
SpecUpload == InitUpload /\ [][NextUpload]_vars

\* retailer2_service.py normalize_sales_record, lines 65-78: the SalesRecord
\* of the API record of R_B, which has no department, member_id or
\* location_id: category is '' (.get('department', '')), customer_id and
\* store_id are None
SR_B == [Rec("t2", "P2", "Gadget", "", "3", "retailer_2", D_Mon, None, None)
           EXCEPT !.total_amount = "15"]

\* the lists of SalesRecord the ingestion uploads for a source; R_A2 has
\* every field of a SalesRecord
IngestedBatches == { <<SR_B>>, <<R_A2, SR_B>> }

\* ingestion/main.py, lines 117-119 (and 125-127, 133-135) and
\* upload_to_s3_raw, lines 66-94: the ingestion of a source for the date
\* writes the source's raw object; it is another process than the
\* transformation and holds no lock, so it may run between any two steps of a
\* run of process_date.  (A PUT that S3 rejects leaves the bucket as it is.)
UploadToS3Raw(ri, records) ==
    /\ bucket' = [bucket EXCEPT ![ri] = upload_to_s3_raw(@, records)]
    /\ bucket' # bucket
    /\ UNCHANGED <<s3_bucket_processed, processed, put_object, uploads, db, tx,
                   pc, runsLeft, pd, ld, loadLog, runLog, returned>>

NextRaw ==
    \/ Next
    \/ \E ri \in DOMAIN retailers : \E records \in IngestedBatches :
          UploadToS3Raw(ri, records)

\* the partitions of the runs beside an ingestion
RecordPoolRaw == {R_A, R_Miss, R_B}

\* one process, one run, while the ingestion may rewrite the raw objects
InitRaw ==
    /\ \E batch \in SeqsUpTo(RecordPoolRaw, MaxBatch) :
          bucket = <<  <<ArrayFile(batch)>>, <<>>, <<>>  >>
    /\ s3_bucket_processed = TRUE
    /\ put_object = "ok"
    /\ runsLeft = [p \in Procs |-> IF p = 1 THEN 1 ELSE 0]
    /\ InitCommon

\* a run of process_date beside the ingestion
SpecRaw == InitRaw /\ [][NextRaw]_vars

\* one process, MaxRuns runs of process_date
Spec == Init /\ [][Next]_vars

\* two processes, one run each, every interleaving of their statements
SpecConc == InitConc /\ [][Next]_vars

\* one process over failing and missing partitions
SpecParts == InitParts /\ [][Next]_vars

\* one process over the calendar
SpecDates == InitDates /\ [][Next]_vars

\* ------------------------------------------------------- claims: helpers

\* every finished call of load_sales_fact
LoadEntries == UNION {Range(loadLog[p]) : p \in Procs}

\* the loads of run r of process p
RunLoads(p, r) == SelectSeq(loadLog[p], LAMBDA e : e.run = r)

RECURSIVE SumSkipped(_)
SumSkipped(entries) ==
    IF entries = <<>> THEN 0
    ELSE Head(entries).skipped_count + SumSkipped(Tail(entries))

RECURSIVE SumInserted(_)
SumInserted(entries) ==
    IF entries = <<>> THEN 0
    ELSE Head(entries).inserted_count + SumInserted(Tail(entries))

\* a record with every required field, a valid date and numeric amounts
WellFormed(record) ==
    /\ \A f \in Range(required_fields) : f \in DOMAIN record
    /\ fromisoformat_ok(record.transaction_date)
    /\ \A f \in {"quantity", "unit_price", "total_amount"} :
          record[f] \in {"1", "2", "3", "5", "15"}

\* the record's retailer code has a dim_retailer row
KnownRetailer(record) ==
    /\ "retailer_id" \in DOMAIN record
    /\ \E rt \in dim_retailer : rt.retailer_code = record.retailer_id

\* the fact row of the record's natural key is among rows
Loaded(record, rows) ==
    /\ {"transaction_id", "product_id", "retailer_id"} \subseteq DOMAIN record
    /\ \E row \in rows :
          /\ row.transaction_id = record.transaction_id
          /\ \E pr \in dim_product :
                pr.product_id = row.product_id /\ pr.product_sku = record.product_id
          /\ \E rt \in dim_retailer :
                rt.retailer_id = row.retailer_id
                /\ rt.retailer_code = record.retailer_id

\* ------------------------------------------------------------------ C1

\* C1, as stated: every load_sales_fact call ends with
\* inserted + skipped + len(errors) = len(records).
C1_Conservation_Stated ==
    \A e \in LoadEntries :
        e.inserted_count + e.skipped_count + Len(e.error_details) = Len(e.records)

\* C1, amended: every load_sales_fact call ends with
\* inserted + skipped = len(records); a record in the error list is counted
\* in skipped as well, so len(errors) <= skipped.
C1_Conservation ==
    \A e \in LoadEntries :
        /\ e.inserted_count + e.skipped_count = Len(e.records)
        /\ Len(e.error_details) <= e.skipped_count
        /\ Len(e.error_details) =
              Cardinality({i \in DOMAIN e.outcome : e.outcome[i] = "error"})

C1_Witness ==
    \E e \in LoadEntries :
        /\ Len(e.error_details) > 0
        /\ e.inserted_count > 0
        /\ e.skipped_count > Len(e.error_details)

\* ------------------------------------------------------------------ C2

\* C2: the committed fact_sales rows have pairwise distinct
\* (transaction_id, product_id, retailer_id), in every state of every
\* interleaving of two processes.
C2_FactKeysDistinct ==
    \A r1, r2 \in fact_sales :
        (/\ r1.transaction_id = r2.transaction_id
         /\ r1.product_id = r2.product_id
         /\ r1.retailer_id = r2.retailer_id) => r1 = r2

\* both processes loaded the same two-key batch; one inserted, one skipped
C2_Witness ==
    /\ Cardinality(fact_sales) = 2
    /\ \E p, q \in Procs :
          /\ p # q
          /\ Len(loadLog[p]) = 1 /\ Len(loadLog[q]) = 1
          /\ loadLog[p][1].inserted_count >= 1
          /\ loadLog[q][1].skipped_count >= 1
          /\ \E i \in DOMAIN loadLog[q][1].outcome :
                loadLog[q][1].outcome[i] = "skipped"

\* ------------------------------------------------------------------ C3

\* C3: once the first process_date run has ended, a further run on the same
\* raw input never changes the committed fact table: in every state of the
\* second run fact_sales is what the first run left.
C3_Idempotent ==
    Len(runLog[1]) >= 1 => fact_sales = runLog[1][1].fact_after

\* the second run has ended, over a fact table of at least two rows
C3_Witness ==
    /\ Len(runLog[1]) = 2
    /\ Cardinality(fact_sales) >= 2
    /\ runLog[1][2].total_files_processed >= 1

\* ------------------------------------------------------------------ C4

\* C4, as stated: in the second run no record already loaded is counted as
\* inserted, and the skipped count of the second run equals the inserted
\* count of the first run.
C4_SecondRun_Stated ==
    Len(runLog[1]) >= 2 =>
        /\ \A e \in Range(RunLoads(1, 2)) : \A i \in DOMAIN e.records :
              Loaded(e.records[i], runLog[1][1].fact_after)
                  => e.outcome[i] # "inserted"
        /\ SumSkipped(RunLoads(1, 2)) = runLog[1][1].total_records

\* C4, amended: in the second run no record whose fact row the first run
\* committed is counted as inserted, and
\* skipped(2nd) = inserted(1st) + skipped(1st) - inserted(2nd).
C4_SecondRun ==
    Len(runLog[1]) >= 2 =>
        /\ \A e \in Range(RunLoads(1, 2)) : \A i \in DOMAIN e.records :
              Loaded(e.records[i], runLog[1][1].fact_after)
                  => e.outcome[i] # "inserted"
        /\ SumSkipped(RunLoads(1, 2)) =
              SumInserted(RunLoads(1, 1)) + SumSkipped(RunLoads(1, 1))
                  - SumInserted(RunLoads(1, 2))
        /\ runLog[1][1].total_records = SumInserted(RunLoads(1, 1))
        /\ runLog[1][2].total_records = SumInserted(RunLoads(1, 2))

\* the second run has ended; the first inserted and skipped records
C4_Witness ==
    /\ Len(runLog[1]) = 2
    /\ runLog[1][1].total_records >= 2
    /\ SumSkipped(RunLoads(1, 1)) >= 1
    /\ runLog[1][2].total_records = 0

\* ------------------------------------------------------------------ C5

\* the batch of C5: pairwise distinct natural keys, known retailers, an
\* empty fact table, record i lacks a required field, the others are
\* well formed
C5_Batch(e, i) ==
    /\ e.fact_before = {}
    /\ Len(e.records) >= 2
    /\ missing_fields(e.records[i]) # {}
    /\ \A j \in DOMAIN e.records :
          /\ KnownRetailer(e.records[j])
          /\ j # i => WellFormed(e.records[j])
          /\ \A k \in DOMAIN e.records :
                (/\ j # k
                 /\ Get(e.records[j], "transaction_id") = Get(e.records[k], "transaction_id")
                 /\ Get(e.records[j], "product_id") = Get(e.records[k], "product_id"))
                    => Get(e.records[j], "retailer_id") # Get(e.records[k], "retailer_id")

\* what C5 and its amendment agree on: one error entry naming record i,
\* n - 1 inserted, the other records committed
C5_Contained(e, i) ==
    /\ e.inserted_count = Len(e.records) - 1
    /\ Len(e.error_details) = 1
    /\ e.error_details[1].idx = i - 1
    /\ e.error_details[1].msg = "Missing required fields"
    /\ \A j \in DOMAIN e.records : j # i => Loaded(e.records[j], e.fact_after)
    /\ Cardinality(e.fact_after) = Len(e.records) - 1

\* C5, as stated: such a batch yields inserted = n - 1, skipped = 0, one
\* error entry that names the defective record, and the others committed.
C5_PartialFailure_Stated ==
    \A e \in LoadEntries : \A i \in DOMAIN e.records :
        C5_Batch(e, i) => (C5_Contained(e, i) /\ e.skipped_count = 0)

\* C5, amended: such a batch yields inserted = n - 1, skipped = 1 (the
\* defective record, which is counted as skipped as well as listed as an
\* error), one error entry that names the defective record by its index,
\* and the other n - 1 records committed.
C5_PartialFailure ==
    \A e \in LoadEntries : \A i \in DOMAIN e.records :
        C5_Batch(e, i) => (C5_Contained(e, i) /\ e.skipped_count = 1)

\* a batch of three records whose second lacks a field has been loaded
C5_Witness ==
    \E e \in LoadEntries :
        /\ Len(e.records) = 3
        /\ C5_Batch(e, 2)

\* ------------------------------------------------------------------ C6

\* C6: the failure of one record of a batch never keeps another valid record
\* of the batch, earlier or later, from being inserted and committed: when
\* load_sales_fact has returned, every well-formed record with a known
\* retailer has its fact row committed.
C6_FailureContained ==
    \A e \in LoadEntries : \A i \in DOMAIN e.records :
        (WellFormed(e.records[i]) /\ KnownRetailer(e.records[i]))
            => Loaded(e.records[i], e.fact_after)

\* ------------------------------------------------------------------ C7

\* a record that reaches get_retailer_id with a code that has no row
UnknownRetailer(record) ==
    /\ \A f \in Range(required_fields) : f \in DOMAIN record
    /\ fromisoformat_ok(record.transaction_date)
    /\ \A rt \in dim_retailer : rt.retailer_code # record.retailer_id

\* no record of the batch makes the fact INSERT statement fail
NoFailingInsert(e) ==
    \A j \in DOMAIN e.records :
        \A f \in {"quantity", "unit_price", "total_amount"} :
            f \in DOMAIN e.records[j] => e.records[j][f] \in {"1", "2", "3", "5", "15"}

\* C7: a record whose retailer code has no dim_retailer row is counted as an
\* error ("Retailer code not found"), no new fact row stems from it (every
\* new row stems from a record counted as inserted), every record of the
\* batch is still processed, and the well-formed records of the batch are
\* committed as they are in a batch without it.
C7_UnknownRetailer ==
    \A e \in LoadEntries : \A i \in DOMAIN e.records :
        UnknownRetailer(e.records[i]) =>
            /\ e.outcome[i] = "error"
            /\ \E k \in DOMAIN e.error_details :
                  /\ e.error_details[k].idx = i - 1
                  /\ e.error_details[k].msg = "Retailer code not found"
            /\ Len(e.outcome) = Len(e.records)
            /\ \A row \in e.fact_after \ e.fact_before :
                  /\ \E rt \in dim_retailer : rt.retailer_id = row.retailer_id
                  /\ \E j \in DOMAIN e.records :
                        /\ e.outcome[j] = "inserted"
                        /\ e.records[j].transaction_id = row.transaction_id
            /\ NoFailingInsert(e) =>
                  \A j \in DOMAIN e.records :
                      (WellFormed(e.records[j]) /\ KnownRetailer(e.records[j]))
                          => Loaded(e.records[j], e.fact_after)

\* an unknown-retailer record stood between two records that were inserted
C7_Witness ==
    \E e \in LoadEntries :
        /\ Len(e.records) = 3
        /\ UnknownRetailer(e.records[2])
        /\ e.outcome = <<"inserted", "error", "inserted">>
        /\ Cardinality(e.fact_after \ e.fact_before) = 2

\* ------------------------------------------------------------------ C8

\* C8: each dimension table holds exactly one row per natural key that a
\* resolver call has returned a key for (calendar date, product code,
\* non-empty customer and store external id), no two rows of a table share
\* a natural key, and every call for a natural key returned the surrogate
\* key of that row.
C8_OneRowPerKey ==
    /\ \A r1, r2 \in dim_date :
          (r1.year = r2.year /\ r1.month = r2.month /\ r1.day = r2.day) => r1 = r2
    /\ \A r1, r2 \in dim_product : r1.product_sku = r2.product_sku => r1 = r2
    /\ \A r1, r2 \in dim_customer :
          r1.customer_external_id = r2.customer_external_id => r1 = r2
    /\ \A r1, r2 \in dim_store :
          r1.store_external_id = r2.store_external_id => r1 = r2
    /\ \A c \in returned.date :
          \E r \in dim_date :
              <<r.year, r.month, r.day>> = c[1] /\ r.date_id = c[2]
    /\ \A c \in returned.product :
          \E r \in dim_product : r.product_sku = c[1] /\ r.product_id = c[2]
    /\ \A c \in returned.customer :
          c[1] \notin {"None", ""} =>
              \E r \in dim_customer :
                  r.customer_external_id = c[1] /\ r.customer_id = c[2]
    /\ \A c \in returned.store :
          c[1] \notin {"None", ""} =>
              \E r \in dim_store : r.store_external_id = c[1] /\ r.store_id = c[2]

\* two runs have resolved two dates, two products, two customers and two
\* stores, each more than once
C8_Witness ==
    /\ Len(runLog[1]) = 2
    /\ Cardinality(dim_date) = 2
    /\ Cardinality(dim_product) = 2
    /\ Cardinality(dim_customer) = 2
    /\ Cardinality(dim_store) = 2
    /\ Cardinality(returned.date) = 2

\* ------------------------------------------------------------------ C9

\* C9: when two processes race to create the same dimension row, the loser's
\* rejected insert is not propagated: no record is listed as an error
\* because of a uniqueness violation in a resolver.
C9_RaceLoserRereads ==
    \A p \in Procs : \A k \in DOMAIN ld[p].error_details :
        ld[p].error_details[k].msg # "UniqueViolation"

\* ------------------------------------------------------------------ C10

\* C10: when get_or_create_product_id has returned for a record, dim_product
\* holds exactly one row for the record's product code, its name and
\* category are those of this call, the call returned its surrogate key,
\* and so did every earlier call for the code.
C10_ProductUpsert ==
    \A p \in Procs :
        pc[p] = "cust_sel" =>
            LET record == ld[p].records[ld[p].idx]
                rows == {r \in dim_product : r.product_sku = record.product_id}
            IN  /\ Cardinality(rows) = 1
                /\ \A r \in rows :
                      /\ r.product_name = record.product_name
                      /\ r.category = (IF "category" \in DOMAIN record
                                         THEN record.category ELSE "")
                      /\ r.product_id = ld[p].product_id
                      /\ \A c \in returned.product :
                            c[1] = record.product_id => c[2] = r.product_id

\* the second call for a code came with another name and category
C10_Witness ==
    \E p \in Procs :
        /\ pc[p] = "cust_sel"
        /\ ld[p].idx >= 2
        /\ \E j \in 1..(ld[p].idx - 1) :
              /\ ld[p].outcome[j] = "inserted"
              /\ ld[p].records[j].product_id = ld[p].records[ld[p].idx].product_id
              /\ ld[p].records[j].product_name
                    # ld[p].records[ld[p].idx].product_name

\* ------------------------------------------------------------------ C11

\* C11: a call of get_or_create_customer_id or get_or_create_store_id with
\* the external id None returns None (a NULL key) and makes no storage
\* access: it enters no transaction, executes no statement, and leaves
\* every table and the batch transaction as they were.
C11_NoneNoAccess ==
    [][\A p \in Procs :
          /\ (/\ pc[p] = "cust_sel"
              /\ pc'[p] # "cust_sel"
              /\ "customer_id" \notin DOMAIN ld[p].records[ld[p].idx])
             => /\ ld'[p].customer_id = 0
                /\ pc'[p] = "store_sel"
                /\ ld'[p].db_begins = ld[p].db_begins
                /\ ld'[p].db_executes = ld[p].db_executes
                /\ db' = db
                /\ tx' = tx
          /\ (/\ pc[p] = "store_sel"
              /\ pc'[p] # "store_sel"
              /\ \/ "store_id" \notin DOMAIN ld[p].records[ld[p].idx]
                 \/ ld[p].records[ld[p].idx].store_id = "None")
             => /\ ld'[p].store_id = 0
                /\ pc'[p] = "retailer"
                /\ ld'[p].db_begins = ld[p].db_begins
                /\ ld'[p].db_executes = ld[p].db_executes
                /\ db' = db
                /\ tx' = tx
      ]_vars

\* both resolvers have returned None for the first record of a load into
\* empty tables: the only accesses were the batch transaction and the
\* date and product resolvers (a lookup and an insert each)
C11_Witness ==
    \E p \in Procs :
        /\ pc[p] = "retailer"
        /\ ld[p].idx = 1
        /\ "customer_id" \notin DOMAIN ld[p].records[1]
        /\ "store_id" \notin DOMAIN ld[p].records[1]
        /\ ld[p].customer_id = 0
        /\ ld[p].store_id = 0
        /\ ld[p].db_begins = 3
        /\ ld[p].db_executes = 4
        /\ dim_customer = {}
        /\ dim_store = {}

\* ------------------------------------------------------------------ C12

\* C12: dim_date, dim_customer and dim_store rows are insert-once.  A
\* resolver call for a calendar date, a customer id or a store id that
\* already has a row returns that row's surrogate key and changes no
\* column of any dimension row; no step ever changes or removes a row of
\* these three tables.
C12_InsertOnce ==
    [][/\ dim_date \subseteq dim_date'
       /\ dim_customer \subseteq dim_customer'
       /\ dim_store \subseteq dim_store'
       /\ \A p \in Procs :
            LET record == ld[p].records[ld[p].idx]
            IN  /\ (pc[p] = "date_sel" /\ pc'[p] # "date_sel")
                   => \A r \in dim_date :
                        (/\ r.year = record.transaction_date[1]
                         /\ r.month = record.transaction_date[2]
                         /\ r.day = record.transaction_date[3])
                        => /\ pc'[p] = "prod_sel"
                           /\ ld'[p].date_id = r.date_id
                           /\ db' = db
                /\ (pc[p] = "cust_sel" /\ pc'[p] # "cust_sel")
                   => \A r \in dim_customer :
                        (/\ "customer_id" \in DOMAIN record
                         /\ r.customer_external_id = record.customer_id)
                        => /\ pc'[p] = "store_sel"
                           /\ ld'[p].customer_id = r.customer_id
                           /\ db' = db
                /\ (pc[p] = "store_sel" /\ pc'[p] # "store_sel")
                   => \A r \in dim_store :
                        (/\ "store_id" \in DOMAIN record
                         /\ r.store_external_id = record.store_id)
                        => /\ pc'[p] = "retailer"
                           /\ ld'[p].store_id = r.store_id
                           /\ db' = db
      ]_vars

\* in a second run the date, the customer and the store of the first record
\* were all found: five lookups and the product update, no insert
C12_Witness ==
    \E p \in Procs :
        /\ Len(runLog[p]) >= 1
        /\ pc[p] = "retailer"
        /\ ld[p].idx = 1
        /\ ld[p].date_id # 0
        /\ ld[p].customer_id # 0
        /\ ld[p].store_id # 0
        /\ ld[p].db_executes = 5

\* ------------------------------------------------------------------ C13

\* the day of the week by Zeller's congruence, Monday = 1 .. Sunday = 7
C13_DayOfWeek(y, m, d) ==
    LET mm == IF m < 3 THEN m + 12 ELSE m
        yy == IF m < 3 THEN y - 1 ELSE y
        K == yy % 100
        J == yy \div 100
        h == (d + ((13 * (mm + 1)) \div 5) + K + (K \div 4) + (J \div 4) + 5 * J) % 7
    IN  ((h + 5) % 7) + 1

C13_DayOfYear(y, m, d) ==
    <<0, 31, 59, 90, 120, 151, 181, 212, 243, 273, 304, 334>>[m] + d
    + (IF m > 2 /\ (y % 4 = 0) /\ (y % 100 # 0 \/ y % 400 = 0) THEN 1 ELSE 0)

\* ISO 8601: a year has 53 weeks iff it starts on a Thursday, or on a
\* Wednesday and is a leap year
C13_Dec31(y) == (y + (y \div 4) - (y \div 100) + (y \div 400)) % 7
C13_WeeksIn(y) == IF C13_Dec31(y) = 4 \/ C13_Dec31(y - 1) = 3 THEN 53 ELSE 52

\* ISO 8601 week number from the ordinal day and the day of the week
C13_IsoWeek(y, m, d) ==
    LET w == (C13_DayOfYear(y, m, d) - C13_DayOfWeek(y, m, d) + 10) \div 7
    IN  IF w < 1 THEN C13_WeeksIn(y - 1)
        ELSE IF w > C13_WeeksIn(y) THEN 1
        ELSE w

\* C13: every dim_date row has day_of_week in 1..7 with Monday = 1 and
\* Sunday = 7, is_weekend exactly when day_of_week is 6 or 7, quarter =
\* (month - 1) div 3 + 1, and week = the ISO-8601 week of the date; the row
\* of 2024-01-06 has day_of_week 6, is_weekend and week 1, the row of
\* 2024-01-08 has day_of_week 1 and is not a weekend day.
C13_DateDerivation ==
    \A r \in dim_date :
        /\ r.day_of_week \in 1..7
        /\ r.day_of_week = C13_DayOfWeek(r.year, r.month, r.day)
        /\ r.is_weekend = (r.day_of_week \in {6, 7})
        /\ r.quarter = ((r.month - 1) \div 3) + 1
        /\ r.week = C13_IsoWeek(r.year, r.month, r.day)
        /\ (r.year = 2024 /\ r.month = 1 /\ r.day = 6)
              => r.day_of_week = 6 /\ r.is_weekend /\ r.week = 1
        /\ (r.year = 2024 /\ r.month = 1 /\ r.day = 8)
              => r.day_of_week = 1 /\ ~r.is_weekend

\* the row of Sunday 2023-01-01, which falls in ISO week 52 of 2022
C13_Witness ==
    \E r \in dim_date :
        /\ r.year = 2023 /\ r.month = 1 /\ r.day = 1
        /\ r.day_of_week = 7
        /\ r.is_weekend
        /\ r.quarter = 1
        /\ r.week = 52

\* ------------------------------------------------------------------ C14

\* C14: in every state, the date, product and retailer keys of every
\* committed fact_sales row are keys of committed dim_date, dim_product and
\* dim_retailer rows, and its customer and store keys are NULL or keys of
\* committed dim_customer and dim_store rows.
C14_ForeignKeys ==
    \A f \in fact_sales :
        /\ \E r \in dim_date : r.date_id = f.date_id
        /\ \E r \in dim_product : r.product_id = f.product_id
        /\ \E r \in dim_retailer : r.retailer_id = f.retailer_id
        /\ f.customer_id = 0 \/ \E r \in dim_customer : r.customer_id = f.customer_id
        /\ f.store_id = 0 \/ \E r \in dim_store : r.store_id = f.store_id

\* committed fact rows with and without a customer and a store
C14_Witness ==
    \E f, g \in fact_sales :
        /\ f.customer_id = 0 /\ f.store_id = 0
        /\ g.customer_id # 0 /\ g.store_id # 0

\* ------------------------------------------------------------------ C15

\* C15: when load_sales_fact processes a record whose natural key already
\* has a fact_sales row, the record is counted as skipped, no error is
\* recorded for it, and the rows the table held before the load (all their
\* columns) are still there after it.
C15_DuplicateUntouched ==
    \A e \in LoadEntries : \A i \in DOMAIN e.records :
        (/\ WellFormed(e.records[i])
         /\ KnownRetailer(e.records[i])
         /\ Loaded(e.records[i], e.fact_before))
        => /\ e.outcome[i] = "skipped"
           /\ \A k \in DOMAIN e.error_details : e.error_details[k].idx # i - 1
           /\ e.fact_before \subseteq e.fact_after

\* ------------------------------------------------------------------ C16

\* the object cannot be downloaded (whatever exception the download ends
\* by), is not valid JSON, or is no JSON array
C16_Fails(f) == f.kind \in {"unreadable", "get_raises", "badjson", "nonarray"}

\* the object the raw bucket holds under the key process p reads next
C16_Current(p) ==
    CHOOSE f \in Range(bucket[pd[p].ri]) : f.name = pd[p].json_files[pd[p].fi]

\* C16: process_s3_file of a partition that cannot be downloaded, is not
\* valid JSON or whose top-level value is not an array returns 0: it adds
\* nothing to the records loaded and changes no table and no processed
\* object, and process_date goes on with the next partition; a run that
\* reaches its summary has called process_s3_file for every .json object
\* listed and has loaded every partition that holds a non-empty array.
C16_FailedPartition ==
    [][\A p \in Procs :
          /\ (/\ pc[p] = "file"
              /\ pd'[p] # pd[p]
              /\ pd[p].fi <= Len(pd[p].json_files)
              /\ C16_Fails(C16_Current(p)))
             => /\ pd'[p].total_records = pd[p].total_records
                /\ db' = db
                /\ tx' = tx
                /\ processed' = processed
                /\ loadLog' = loadLog
                /\ pc'[p] = "file"
                /\ pd'[p].fi = pd[p].fi + 1
          /\ Len(runLog'[p]) > Len(runLog[p])
             => /\ pd[p].total_files_processed = pd[p].total_files_found
                /\ \A ri \in DOMAIN bucket : \A i \in DOMAIN bucket[ri] :
                      (/\ bucket[ri][i].kind = "array"
                       /\ bucket[ri][i].records # <<>>
                       /\ \A j \in DOMAIN bucket[ri] :
                             bucket[ri][j].kind # "list_error")
                      => \E e \in Range(loadLog[p]) :
                            e.source = ri /\ e.records = bucket[ri][i].records
      ]_vars

\* ------------------------------------------------------------------ C17

\* C17: no exception raised while a record or a partition is processed
\* leaves process_s3_file or process_date: whatever the elements of a JSON
\* array are, no process ends a run by an exception (the bad elements are
\* record-level errors and the records, partitions and sources after them
\* are still processed).
C17_NoExceptionEscapes ==
    \A p \in Procs :
        /\ pc[p] # "raised"
        /\ \A e \in Range(loadLog[p]) : Len(e.outcome) = Len(e.records)

\* ------------------------------------------------------------------ C18

\* C18: every run of process_date that has come to its end has emitted its
\* summary and returned, and the summary of a run in which no partition
\* was loaded reports zero records.
C18_RunEndsWithSummary ==
    \A p \in Procs :
        /\ pc[p] \in {"idle", "raised"}
              => Len(runLog[p]) + runsLeft[p] = (IF p = 1 THEN 1 ELSE 0)
        /\ \A r \in DOMAIN runLog[p] :
              loadLog[p] = <<>> => runLog[p][r].total_records = 0

\* ------------------------------------------------------------------ C19

\* C19: the value process_date returns is the sum of the inserted counts of
\* the loads of the run (a partition that fails has no load and adds 0),
\* and it is the number of fact rows the run committed.
C19_ReturnIsCommitted ==
    \A p \in Procs : \A r \in DOMAIN runLog[p] :
        LET before == IF r = 1 THEN {} ELSE runLog[p][r - 1].fact_after
        IN  /\ runLog[p][r].total_records = SumInserted(RunLoads(p, r))
            /\ runLog[p][r].total_records
                  = Cardinality(runLog[p][r].fact_after \ before)

\* ------------------------------------------------------------------ C20

\* a record with all eight required fields
C20_Valid(record) ==
    \A f \in {"transaction_date", "product_id", "product_name", "transaction_id",
              "quantity", "unit_price", "total_amount", "retailer_id"} :
        f \in DOMAIN record

C20_Filter(records) == SelectSeq(records, C20_Valid)

\* C20: whatever records a partition holds, an object is written to the
\* processed location only for the partition's source, the object written
\* holds exactly the partition's records that have all eight required
\* fields, in input order, it is written whenever the destination is
\* configured and there is such a record, and no processed object ever
\* holds a record without one of the fields.  The partition's records are
\* those its raw object holds when process_s3_file downloads it, also when
\* the ingestion has rewritten the object since it was listed.
C20_WriterFilters ==
    [][/\ \A p \in Procs :
            (pc[p] = "file" /\ pc'[p] = "upload")
            => \E f \in Range(bucket[pd[p].ri]) :
                  /\ f.name = pd[p].json_files[pd[p].fi]
                  /\ pd'[p].records = f.records
       /\ \A p \in Procs :
            (pc[p] = "upload" /\ pc'[p] = "record")
            => LET ri == pd[p].ri
                   records == pd[p].records
               IN  /\ \A rj \in DOMAIN processed :
                         rj # ri => processed'[rj] = processed[rj]
                   /\ IF s3_bucket_processed /\ C20_Filter(records) # <<>>
                        THEN processed'[ri] = C20_Filter(records)
                        ELSE processed'[ri] = processed[ri]
       /\ processed' # processed
            => \E p \in Procs : pc[p] = "upload" /\ pc'[p] = "record"
       /\ \A ri \in DOMAIN processed' :
            processed'[ri] # NoObject
            => \A i \in DOMAIN processed'[ri] : C20_Valid(processed'[ri][i])
      ]_vars

\* an object was written for a partition of three elements of which the
\* first and the last are valid: it holds these two, in this order; and
\* the object of the second source holds the two records the ingestion
\* wrote there during the run
C20_Witness ==
    /\ processed[2] = <<serialize_sales_record(R_A2), serialize_sales_record(SR_B)>>
    /\ Len(bucket[1]) = 1
    /\ Len(bucket[1][1].records) = 3
    /\ C20_Valid(bucket[1][1].records[1])
    /\ ~C20_Valid(bucket[1][1].records[2])
    /\ C20_Valid(bucket[1][1].records[3])
    /\ bucket[1][1].records[1] # bucket[1][1].records[3]
    /\ Len(processed[1]) = 2
    /\ processed[1][1] = bucket[1][1].records[1]
    /\ processed[1][2] = bucket[1][1].records[3]

\* ------------------------------------------------------------------ C21

\* C21: a call of upload_processed_data_to_s3 with the processed bucket not
\* configured, or with an empty list of records, returns False, raises
\* nothing and writes no object.
C21_NothingToWrite ==
    [][\A p \in Procs :
          Len(uploads'[p]) > Len(uploads[p])
          => LET u == uploads'[p][Len(uploads'[p])]
             IN  (~s3_bucket_processed \/ u.records = <<>>)
                 => /\ u.result = "False"
                    /\ pc'[p] # "raised"
                    /\ processed' = processed
      ]_vars

\* the function has returned False for an empty list with the bucket
\* configured, and for a list of records with the bucket not configured
C21_Witness ==
    \E p \in Procs : \E i \in DOMAIN uploads[p] :
        /\ uploads[p][i].result = "False"
        /\ \A ri \in DOMAIN processed : processed[ri] = NoObject
        /\ \/ s3_bucket_processed /\ put_object = "ok" /\ uploads[p][i].records = <<>>
           \/ ~s3_bucket_processed /\ uploads[p][i].records # <<>>

\* ------------------------------------------------------------------ C22

\* C22: every dimension row a returned resolver call created or found is
\* committed and stays committed: in every state, each surrogate key a
\* resolver has returned belongs to a row of its table with the natural
\* key of the call, and neither the death of the process nor the failure
\* of a later statement of the batch changes any dimension table.
C22_ResolvedStaysCommitted ==
    [][/\ \A c \in returned'.date : \E r \in dim_date' :
             r.date = c[1] /\ r.date_id = c[2]
       /\ \A c \in returned'.product : \E r \in dim_product' :
             r.product_sku = c[1] /\ r.product_id = c[2]
       /\ \A c \in returned'.customer : c[2] # 0 =>
             \E r \in dim_customer' :
                 r.customer_external_id = c[1] /\ r.customer_id = c[2]
       /\ \A c \in returned'.store : c[2] # 0 =>
             \E r \in dim_store' :
                 r.store_external_id = c[1] /\ r.store_id = c[2]
       /\ \A p \in Procs :
             (\/ pc'[p] = "crashed" /\ pc[p] # "crashed"
              \/ tx'[p].status = "aborted" /\ tx[p].status = "open")
             => dims' = dims
      ]_vars

\* the process died after an insert of the batch: the fact row is gone
\* with the batch transaction, the rows of the four resolvers are there
C22_Witness ==
    \E p \in Procs :
        /\ pc[p] = "crashed"
        /\ ld[p].inserted_count = 1
        /\ fact_sales = {}
        /\ dim_date # {}
        /\ dim_product # {}
        /\ dim_customer # {}
        /\ dim_store # {}

\* ------------------------------------------------------------------ C23

\* What one uninterrupted run of process_date leaves, read off the input.

\* the record lists of the partitions loaded, in the order of processing
C23_Parts ==
    LET files(ri) ==
            SelectSeq(bucket[ri],
                      LAMBDA f : /\ f.kind = "array"
                                 /\ f.records # <<>>
                                 /\ f.name \in {"sales_data.json", "extra.json"})
        all == files(1) \o files(2) \o files(3)
    IN  [i \in DOMAIN all |-> all[i].records]

RECURSIVE C23_Flatten(_)
C23_Flatten(seqs) ==
    IF seqs = <<>> THEN <<>> ELSE Head(seqs) \o C23_Flatten(Tail(seqs))

\* the record gets to the resolvers / to the fact insert / fails there
C23_Resolves(r) ==
    /\ C20_Valid(r)
    /\ fromisoformat_ok(r.transaction_date)
C23_Reaches(r) ==
    /\ C23_Resolves(r)
    /\ r.retailer_id \in {"retailer_1", "retailer_2", "retailer_3"}
C23_Fails(r) ==
    /\ C23_Reaches(r)
    /\ \E f \in {"quantity", "unit_price", "total_amount"} :
          r[f] \notin {"1", "2", "3", "5", "15"}

\* natural keys of the fact rows: the partitions without a failing insert
C23_ExpectedFacts ==
    UNION { { <<r.transaction_id, r.product_id, r.retailer_id>> :
                r \in {x \in Range(C23_Parts[k]) : C23_Reaches(x)} } :
            k \in {j \in DOMAIN C23_Parts :
                      \A x \in Range(C23_Parts[j]) : ~C23_Fails(x)} }

C23_ExpectedProducts ==
    LET all == C23_Flatten(C23_Parts)
        last(sku) == CHOOSE i \in DOMAIN all :
                        /\ C23_Resolves(all[i]) /\ all[i].product_id = sku
                        /\ \A j \in DOMAIN all :
                              (C23_Resolves(all[j]) /\ all[j].product_id = sku)
                                  => j <= i
    IN  { <<sku, all[last(sku)].product_name,
            IF "category" \in DOMAIN all[last(sku)]
              THEN all[last(sku)].category ELSE "">> :
          sku \in {all[i].product_id :
                      i \in {j \in DOMAIN all : C23_Resolves(all[j])}} }

C23_ExpectedExternal(field) ==
    { r[field] : r \in {x \in Range(C23_Flatten(C23_Parts)) :
                           /\ C23_Resolves(x)
                           /\ field \in DOMAIN x
                           /\ x[field] \notin {"None", ""}} }

C23_ExpectedDates ==
    { <<r.transaction_date[1], r.transaction_date[2], r.transaction_date[3]>> :
        r \in {x \in Range(C23_Flatten(C23_Parts)) : C23_Resolves(x)} }

\* the natural keys of the committed fact rows
C23_FactKeys ==
    { <<f.transaction_id,
        (CHOOSE r \in dim_product : r.product_id = f.product_id).product_sku,
        (CHOOSE r \in dim_retailer : r.retailer_id = f.retailer_id).retailer_code>> :
      f \in fact_sales }

\* C23: when a run of process_date has come to its end, after an earlier
\* run on the same input died at any point or without one, the tables
\* hold what one uninterrupted run leaves: the same fact rows by natural
\* key, the same dimension rows by natural key and attributes, one row per
\* key.
C23_RerunConverges ==
    \A p \in Procs :
        (pc[p] = "idle" /\ Len(runLog[p]) >= 1) =>
            /\ C23_FactKeys = C23_ExpectedFacts
            /\ Cardinality(fact_sales) = Cardinality(C23_ExpectedFacts)
            /\ {r.date : r \in dim_date} = C23_ExpectedDates
            /\ Cardinality(dim_date) = Cardinality(C23_ExpectedDates)
            /\ {<<r.product_sku, r.product_name, r.category>> : r \in dim_product}
                  = C23_ExpectedProducts
            /\ Cardinality(dim_product) = Cardinality(C23_ExpectedProducts)
            /\ {r.customer_external_id : r \in dim_customer}
                  = C23_ExpectedExternal("customer_id")
            /\ Cardinality(dim_customer)
                  = Cardinality(C23_ExpectedExternal("customer_id"))
            /\ {r.store_external_id : r \in dim_store}
                  = C23_ExpectedExternal("store_id")
            /\ Cardinality(dim_store) = Cardinality(C23_ExpectedExternal("store_id"))

\* a run has ended after the run before it died: two runs were started,
\* one summary was written, and fact rows are committed
C23_Witness ==
    \E p \in Procs :
        /\ pc[p] = "idle"
        /\ runsLeft[p] = 0
        /\ Len(runLog[p]) = 1
        /\ Cardinality(fact_sales) = 2
        /\ Len(loadLog[p]) >= 2

\* ------------------------------------------------------------------ C24

\* C24: when two processes that ran process_date concurrently on the same
\* input have both ended, fact_sales holds exactly the rows one run alone
\* commits, one per natural key, and the inserted counts the two runs
\* returned add up to the number of these rows.
C24_ConcurrentConverges ==
    (\A p \in Procs : pc[p] = "idle" /\ Len(runLog[p]) = 1) =>
        /\ C23_FactKeys = C23_ExpectedFacts
        /\ Cardinality(fact_sales) = Cardinality(C23_ExpectedFacts)
        /\ runLog[1][1].total_records + runLog[2][1].total_records
              = Cardinality(C23_ExpectedFacts)

\* ------------------------------------------------------------------ C25

\* C25: no step of the transformation changes dim_retailer, and a call of
\* get_retailer_id either yields the surrogate key of the dim_retailer row
\* of the code, or, when the code has no row, fails: the record becomes the
\* error "Retailer code not found" and no key is set (a process that dies
\* during the call returns nothing).
C25_RetailerReadOnly ==
    [][/\ dim_retailer' = dim_retailer
       /\ \A p \in Procs :
            (pc[p] = "retailer" /\ pc'[p] \notin {"retailer", "crashed"})
            => LET code == ld[p].records[ld[p].idx].retailer_id
                   rows == {r \in dim_retailer : r.retailer_code = code}
               IN  IF rows # {}
                     THEN /\ pc'[p] = "fact"
                          /\ \E r \in rows : ld'[p].retailer_id = r.retailer_id
                     ELSE /\ pc'[p] = "record"
                          /\ ld'[p].idx = ld[p].idx + 1
                          /\ ld'[p].retailer_id = ld[p].retailer_id
                          /\ ld'[p].error_details[Len(ld'[p].error_details)].msg
                                = "Retailer code not found"
      ]_vars

\* a load has ended in which one record had an unknown retailer code and
\* another a known one: dim_retailer holds its three rows
C25_Witness ==
    /\ \E e \in LoadEntries :
          /\ \E k \in DOMAIN e.error_details :
                e.error_details[k].msg = "Retailer code not found"
          /\ e.inserted_count >= 1
    /\ Cardinality(dim_retailer) = 3

\* ------------------------------------------------------------------ C26

\* process p is about to run process_s3_file on a partition that parses to
\* a non-empty array
C26_AtArray(p) ==
    /\ pc[p] = "file"
    /\ pd[p].fi <= Len(pd[p].json_files)
    /\ C16_Current(p).kind = "array"
    /\ Len(C16_Current(p).records) > 0

\* C26: process_s3_file on a partition that parses to a non-empty array
\* goes on, with the parsed records, to the write and the load; there
\* load_sales_fact is started on all parsed records, valid or not, before
\* any statement of the load has run, and the valid records are by then
\* the processed object of the partition's source (when the processed
\* bucket is configured and accepts the write and there is a valid record).
C26_WriteThenLoadAll ==
    [][\A p \in Procs :
          /\ (C26_AtArray(p) /\ (pc'[p] # pc[p] \/ pd'[p] # pd[p]))
             => /\ pc'[p] = "upload"
                /\ pd'[p].records = C16_Current(p).records
          /\ (pc[p] = "upload" /\ pc'[p] # pc[p])
             => /\ pc'[p] = "record"
                /\ ld'[p].records = pd[p].records
                /\ ld'[p].idx = 1
                /\ ld'[p].db_executes = 0
                /\ tx'[p].pending = {}
                /\ (s3_bucket_processed /\ put_object = "ok"
                       /\ C20_Filter(pd[p].records) # <<>>)
                   => processed'[pd[p].ri] = C20_Filter(pd[p].records)
      ]_vars

\* ------------------------------------------------------------------ C27

\* C27: whenever the write of the processed object of a partition fails
\* (the call of upload_processed_data_to_s3 does not end with True: bucket
\* not configured, upload rejected, storage unreachable), nothing is
\* written and load_sales_fact is still started on all records of the
\* partition, in the state in which it starts after a successful write.
C27_WriteIsBestEffort ==
    [][\A p \in Procs :
          Len(uploads'[p]) > Len(uploads[p])
          => LET u == uploads'[p][Len(uploads'[p])]
             IN  u.result # "True"
                 => /\ processed' = processed
                    /\ pc'[p] = "record"
                    /\ ld'[p] = [ld0 EXCEPT
                                   !.records = pd[p].records,
                                   !.db_begins = 1]
                    /\ tx'[p] = [status |-> "open", pending |-> {}]
      ]_vars

\* ------------------------------------------------------------------ C28

\* the dimension rows of a record exist, one per natural key, and the
\* product row carries the record's name and category
C28_DimensionsOf(record, dates, products, customers, stores) ==
    /\ Cardinality({r \in dates : r.date = <<record.transaction_date[1],
                                              record.transaction_date[2],
                                              record.transaction_date[3]>>}) = 1
    /\ Cardinality({r \in products : r.product_sku = record.product_id}) = 1
    /\ \A r \in products :
          r.product_sku = record.product_id
          => /\ r.product_name = record.product_name
             /\ r.category = (IF "category" \in DOMAIN record
                                THEN record.category ELSE "")
    /\ ("customer_id" \in DOMAIN record /\ record.customer_id \notin {None, ""})
          => Cardinality({r \in customers :
                            r.customer_external_id = record.customer_id}) = 1
    /\ ("store_id" \in DOMAIN record /\ record.store_id \notin {None, ""})
          => Cardinality({r \in stores :
                            r.store_external_id = record.store_id}) = 1

\* C28: when a record is counted as an error because its retailer code is
\* unknown (the last resolution), its date, product, customer and store
\* rows are in the tables, the product row of its SKU carries its name and
\* category, also when the product existed before with other values, and
\* no fact row is written or staged for it; the end of the batch, by
\* commit or by rollback, leaves every dimension table as it is.
C28_ErroredRecordKeepsDimensions ==
    [][\A p \in Procs :
          /\ (pc[p] = "retailer" /\ pc'[p] = "record")
             => /\ C28_DimensionsOf(ld[p].records[ld[p].idx], dim_date',
                                    dim_product', dim_customer', dim_store')
                /\ ld'[p].outcome = Append(ld[p].outcome, "error")
                /\ fact_sales' = fact_sales
                /\ tx' = tx
          /\ Len(loadLog'[p]) > Len(loadLog[p])
             => <<dim_date, dim_product, dim_customer, dim_store>>'
                   = <<dim_date, dim_product, dim_customer, dim_store>>
      ]_vars

\* the batch [R_B, R_Unk] was loaded: R_Unk is an error, the product P2
\* that R_B created as "Gadget" now carries the name and category of
\* R_Unk, the store S2 of R_Unk exists, and the only fact row is that of R_B
C28_Witness ==
    /\ \E e \in LoadEntries :
          /\ e.records = <<R_B, R_Unk>>
          /\ e.outcome = <<"inserted", "error">>
    /\ \E r \in dim_product :
          /\ r.product_sku = "P2"
          /\ r.product_name = "Gadget X"
          /\ r.category = "misc"
    /\ Cardinality(dim_product) = 1
    /\ \E r \in dim_store : r.store_external_id = "S2"
    /\ dim_customer = {}
    /\ Cardinality(fact_sales) = 1
    /\ \A r \in fact_sales : r.transaction_id = "t2"

\* ------------------------------------------------------------------ C29

\* one of the eight required fields is not a key of the record
C29_FailsValidation(record) ==
    \E f \in {"transaction_date", "product_id", "product_name", "transaction_id",
              "quantity", "unit_price", "total_amount", "retailer_id"} :
        f \notin DOMAIN record

\* C29: the step of load_sales_fact on a record that lacks a required field
\* ends the record as an error without any storage access: no transaction
\* block is entered and no statement executed, the four dimension tables,
\* dim_retailer and the fact table are unchanged, nothing is staged for
\* insert, and the loader goes on with the next record.
C29_InvalidRecordTouchesNothing ==
    [][\A p \in Procs :
          (/\ pc[p] = "record"
           /\ ld[p].idx <= Len(ld[p].records)
           /\ C29_FailsValidation(ld[p].records[ld[p].idx])
           /\ <<pc[p], ld[p]>>' # <<pc[p], ld[p]>>
           /\ pc'[p] # "crashed")
          => /\ pc'[p] = "record"
             /\ ld'[p].idx = ld[p].idx + 1
             /\ ld'[p].outcome = Append(ld[p].outcome, "error")
             /\ ld'[p].db_begins = ld[p].db_begins
             /\ ld'[p].db_executes = ld[p].db_executes
             /\ <<dim_date, dim_product, dim_customer, dim_store, dim_retailer,
                  fact_sales, tx>>'
                  = <<dim_date, dim_product, dim_customer, dim_store,
                      dim_retailer, fact_sales, tx>>
      ]_vars

\* the batch [R_Miss, R_A] was loaded: the load executed the ten statements
\* of R_A only, the customer C1 that R_Miss also names was created once,
\* for R_A, and the only fact row is that of t1
C29_Witness ==
    /\ \E e \in LoadEntries :
          /\ e.records = <<R_Miss, R_A>>
          /\ e.outcome = <<"error", "inserted">>
    /\ \E p \in Procs :
          /\ ld[p].records = <<R_Miss, R_A>>
          /\ ld[p].idx = 3
          /\ ld[p].db_executes = 10
    /\ Cardinality(dim_customer) = 1
    /\ Cardinality(dim_product) = 1
    /\ Cardinality(fact_sales) = 1
    /\ \A r \in fact_sales : r.transaction_id = "t1"

\* ------------------------------------------------------------------ C30

\* the number of records of a load that ended in one of the given ways
C30_Count(outcome, ways) ==
    Cardinality({i \in DOMAIN outcome : outcome[i] \in ways})

\* C30: while load_sales_fact runs, a step that ends a record adds one to
\* exactly one of inserted_count and skipped_count and every other step
\* leaves both as they are; when it returns, inserted_count + skipped_count
\* is the number of input records, skipped_count holds the duplicates, the
\* validation failures and the caught exceptions, and the caller receives
\* inserted_count alone (it is what process_date adds to its total).
C30_EachRecordCountedOnce ==
    [][\A p \in Procs :
          /\ (pc[p] \notin {"idle", "list", "file", "upload", "raised", "crashed"}
                /\ pc'[p] # "crashed")
             => LET di == ld'[p].inserted_count - ld[p].inserted_count
                    ds == ld'[p].skipped_count - ld[p].skipped_count
                IN  /\ ld'[p].records = ld[p].records
                    /\ IF ld'[p].idx = ld[p].idx + 1
                         THEN <<di, ds>> \in {<<1, 0>>, <<0, 1>>}
                         ELSE /\ ld'[p].idx = ld[p].idx
                              /\ <<di, ds>> = <<0, 0>>
                    /\ ld'[p].inserted_count + ld'[p].skipped_count
                          = ld'[p].idx - 1
          /\ Len(loadLog'[p]) > Len(loadLog[p])
             => LET e == loadLog'[p][Len(loadLog'[p])]
                IN  /\ e.inserted_count + e.skipped_count = Len(e.records)
                    /\ e.inserted_count = C30_Count(e.outcome, {"inserted"})
                    /\ e.skipped_count = C30_Count(e.outcome, {"skipped", "error"})
                    /\ pd'[p].total_records = pd[p].total_records + e.inserted_count
      ]_vars

\* a load of three records has returned in which one record was inserted,
\* one was a duplicate and one failed validation: it counted 1 and 2 and
\* the run's total is 1
C30_Witness ==
    \E p \in Procs : \E r \in DOMAIN runLog[p] : \E e \in Range(loadLog[p]) :
        /\ Len(e.records) = 3
        /\ \E i \in 1..3 : e.outcome[i] = "inserted"
        /\ \E i \in 1..3 : e.outcome[i] = "skipped"
        /\ \E i \in 1..3 : /\ e.outcome[i] = "error"
                           /\ R_Miss = e.records[i]
        /\ e.inserted_count = 1
        /\ e.skipped_count = 2
        /\ runLog[p][r].total_records = 1
====
